---- MODULE Spec2Model ----
(***************************************************************************)
(* auto-node-switch: the hook injection engine (HookManager.addHook /      *)
(* removeHook), the hook generators, and the run-time behaviour of the     *)
(* generated npm wrapper functions inside a shell session.                 *)
(*                                                                         *)
(* Text is modelled as a sequence of tokens.  A path is a sequence of      *)
(* one-character strings.  A startup file is a sequence of file tokens,    *)
(* each a tuple whose first element names the kind of token:               *)
(*   <<"nl">>            a newline character                               *)
(*   <<"txt", c>>        a run of user text without newline or marker      *)
(*   <<"marker">>        the text of HOOK_MARKER                           *)
(*   <<"end">>           the text " END"; HOOK_END_MARKER is the two       *)
(*                       tokens <<"marker">>, <<"end">> because the        *)
(*                       end marker begins with the start marker           *)
(*   <<"fn", ...>>       the text of one generated wrapper function        *)
(***************************************************************************)
EXTENDS Integers, Sequences, FiniteSets, TLC

(***************************************************************************)
(* Bounds                                                                  *)
(***************************************************************************)
MaxOps == 2

MaxInvocations == 2

\* commands of the tool in a run
MaxCmds == 2

\* successive saves of the registry in a run
MaxSaves == 7

(***************************************************************************)
(* Sequence helpers                                                        *)
(***************************************************************************)
Last(s) == s[Len(s)]

Drop(s, n) == IF n >= Len(s) THEN << >> ELSE SubSeq(s, n + 1, Len(s))

Take(s, n) == IF n <= 0 THEN << >> ELSE SubSeq(s, 1, IF n > Len(s) THEN Len(s) ELSE n)

IsPrefixOf(p, s) == Len(p) <= Len(s) /\ Take(s, Len(p)) = p

(***************************************************************************)
(* File tokens                                                             *)
(***************************************************************************)
NL == <<"nl">>

MARK == <<"marker">>

ENDTOK == <<"end">>

Txt(c) == <<"txt", c>>

\* HOOK_MARKER and HOOK_END_MARKER as token sequences
HOOK_MARKER == << MARK >>

HOOK_END_MARKER == << MARK, ENDTOK >>

(***************************************************************************)
(* Character-level helpers for paths and versions                          *)
(***************************************************************************)
RECURSIVE TrimLeft(_)
TrimLeft(s) == IF s # << >> /\ Head(s) = " " THEN TrimLeft(Tail(s)) ELSE s

RECURSIVE TrimRight(_)
TrimRight(s) == IF s # << >> /\ Last(s) = " " THEN TrimRight(Take(s, Len(s) - 1)) ELSE s

\* String.prototype.trim
Trim(s) == TrimRight(TrimLeft(s))

HasChar(s, cs) == \E i \in 1..Len(s) : s[i] \in cs

\* String.prototype.includes for a two-character needle
IncludesDotDot(s) == \E i \in 1..(Len(s) - 1) : s[i] = "." /\ s[i + 1] = "."

\* split a character sequence at every occurrence of sep
RECURSIVE SplitAt(_, _, _, _)
SplitAt(s, sep, cur, acc) ==
    IF s = << >> THEN Append(acc, cur)
    ELSE IF Head(s) = sep THEN SplitAt(Tail(s), sep, << >>, Append(acc, cur))
    ELSE SplitAt(Tail(s), sep, Append(cur, Head(s)), acc)

Split(s, sep) == SplitAt(s, sep, << >>, << >>)

RECURSIVE JoinSegs(_, _)
JoinSegs(segs, sep) ==
    IF segs = << >> THEN << >>
    ELSE IF Len(segs) = 1 THEN segs[1]
    ELSE segs[1] \o << sep >> \o JoinSegs(Tail(segs), sep)

\* os.homedir() and process.cwd() of the tool's process
HOME == << "/", "h" >>

PROC_CWD == << "/", "w" >>

IsAbsolute(p) == p # << >> /\ p[1] = "/"

\* the segment walk shared by path.normalize and path.resolve (posix):
\* drops empty and "." segments, lets ".." cancel the segment before it
RECURSIVE NormSegs(_, _, _)
NormSegs(segs, acc, abs) ==
    IF segs = << >> THEN acc
    ELSE LET g == Head(segs) IN
         IF g = << >> \/ g = << "." >> THEN NormSegs(Tail(segs), acc, abs)
         ELSE IF g = << ".", "." >>
              THEN IF acc # << >> /\ Last(acc) # << ".", "." >>
                   THEN NormSegs(Tail(segs), Take(acc, Len(acc) - 1), abs)
                   ELSE IF abs THEN NormSegs(Tail(segs), acc, abs)
                        ELSE NormSegs(Tail(segs), Append(acc, g), abs)
         ELSE NormSegs(Tail(segs), Append(acc, g), abs)

\* path.normalize (posix): keeps a trailing slash, "" becomes "."
PathNormalize(p) ==
    IF p = << >> THEN << "." >>
    ELSE LET abs  == IsAbsolute(p)
             trl  == Last(p) = "/"
             body == JoinSegs(NormSegs(Split(p, "/"), << >>, abs), "/")
             b2   == IF body = << >> /\ ~abs THEN << "." >> ELSE body
             b3   == IF b2 # << >> /\ trl THEN b2 \o << "/" >> ELSE b2
         IN  IF abs THEN << "/" >> \o b3 ELSE b3

\* path.join(HOME, rest)
PathJoinHome(rest) == PathNormalize(HOME \o << "/" >> \o rest)

\* path.resolve (posix): absolute, normalized, no trailing slash
PathResolve(p) ==
    LET full == IF IsAbsolute(p) THEN p ELSE PROC_CWD \o << "/" >> \o p
    IN  << "/" >> \o JoinSegs(NormSegs(Split(full, "/"), << >>, TRUE), "/")

(***************************************************************************)
(* Security.validatePath / Security.validateVersion                        *)
(* A result is [ok |-> TRUE, value |-> v] or                               *)
(* [ok |-> FALSE, kind |-> error class, code |-> error code].              *)
(***************************************************************************)
Ok(v) == [ok |-> TRUE, value |-> v, kind |-> "none", code |-> "none"]

Err(k, c) == [ok |-> FALSE, value |-> << >>, kind |-> k, code |-> c]

\* the class without the command separator
DangerousChars_noSemicolon ==
    { "|", "&", "$", "(", ")", "{", "}", "[", "]", "\\", "`", "\"", "'",
      "<", ">", "*", "?" }

\* the character class of dangerousChars on a non-Windows platform
DangerousChars ==
    { ";", "|", "&", "$", "(", ")", "{", "}", "[", "]", "\\", "`", "\"", "'",
      "<", ">", "*", "?" }

validatePath(inputPath) ==
    IF inputPath = << >> THEN Err("ValidationError", "EMPTY_PATH")
    ELSE LET trimmedPath == Trim(inputPath) IN
         IF HasChar(trimmedPath, DangerousChars)
         THEN Err("SecurityError", "UNSAFE_CHARACTERS")
         ELSE IF IncludesDotDot(PathNormalize(trimmedPath))
         THEN Err("SecurityError", "PATH_TRAVERSAL")
         ELSE LET resolvedPath ==
                      IF Len(trimmedPath) >= 2 /\ Take(trimmedPath, 2) = << "~", "/" >>
                      THEN PathJoinHome(Drop(trimmedPath, 2))
                      ELSE IF trimmedPath = << "~" >> THEN HOME
                      ELSE trimmedPath
              IN  Ok(PathResolve(resolvedPath))

Digit == { "0", "1", "2", "3", "4", "5", "6", "7", "8", "9" }

Letter == { "a", "b", "c", "d", "e", "f", "g", "h", "i", "j", "k", "l", "m",
            "n", "o", "p", "q", "r", "s", "t", "u", "v", "w", "x", "y", "z",
            "L", "T", "S", "N" }

\* lower-casing, as the /i flag applies it, for the letters of the model
LowerOf(c) ==
    CASE c = "L" -> "l" [] c = "T" -> "t" [] c = "S" -> "s" [] c = "N" -> "n"
      [] OTHER -> c

Lower(s) == [i \in 1..Len(s) |-> LowerOf(s[i])]

IsDigits(s) == s # << >> /\ \A i \in 1..Len(s) : s[i] \in Digit

\* \d+(\.\d+)* with between lo and hi dot-separated groups
IsDotted(s, lo, hi) ==
    LET g == Split(s, ".")
    IN  Len(g) >= lo /\ Len(g) <= hi /\ \A i \in 1..Len(g) : IsDigits(g[i])

\* [\w-]+
IsWordish(s) ==
    s # << >> /\ \A i \in 1..Len(s) : s[i] \in Digit \cup Letter \cup { "_", "-" }

LtsPrefix == << "l", "t", "s", "/" >>

\* the list "patterns" of validateVersion, in order
MatchesVersionPattern(t) ==
    \/ IsDigits(t)
    \/ IsDotted(t, 2, 2)
    \/ IsDotted(t, 3, 3)
    \/ t # << >> /\ t[1] = "v" /\ IsDotted(Tail(t), 1, 3)
    \/ t = LtsPrefix \o << "*" >>
    \/ Len(t) > 4 /\ Lower(Take(t, 4)) = LtsPrefix /\ IsWordish(Drop(t, 4))
    \/ Lower(t) = << "l", "a", "t", "e", "s", "t" >>
    \/ Lower(t) = << "s", "t", "a", "b", "l", "e" >>
    \/ Lower(t) = << "n", "o", "d", "e" >>

validateVersion(version) ==
    IF version = << >> THEN Err("ValidationError", "EMPTY_VERSION")
    ELSE LET trimmed == Trim(version) IN
         IF HasChar(trimmed, DangerousChars)
         THEN Err("SecurityError", "UNSAFE_VERSION_CHARACTERS")
         ELSE IF ~MatchesVersionPattern(trimmed)
         THEN Err("ValidationError", "INVALID_VERSION_FORMAT")
         ELSE Ok(IF trimmed # << >> /\ trimmed[1] = "v" THEN Tail(trimmed) ELSE trimmed)

(***************************************************************************)
(* Registry entries (WorkdirConfig) and the hook generators                *)
(***************************************************************************)
Workdir(d, v) == [dir |-> d, version |-> v]

Managers == { "nvm", "n", "fnm", "nvm-windows", "nvs" }

\* the startup files of the model and how addHook classifies a path:
\* endsWith('.ps1'), includes('config.fish'), endsWith('.bat'/'.cmd'), else POSIX
RcPaths == { ".bashrc", "config.fish", "profile.ps1", "init.cmd" }

isPowerShell(shellRcPath) == shellRcPath = "profile.ps1"

isFishShell(shellRcPath) == shellRcPath = "config.fish"

isCmdBatch(shellRcPath) == shellRcPath = "init.cmd"

\* workdirs.map(w => ({dir: validatePath(w.dir), version: validateVersion(w.version)}))
ValidationThrows(workdirs) ==
    \E i \in 1..Len(workdirs) :
        ~validatePath(workdirs[i].dir).ok \/ ~validateVersion(workdirs[i].version).ok

validatedWorkdirs(workdirs) ==
    [i \in 1..Len(workdirs) |->
        Workdir(validatePath(workdirs[i].dir).value,
                validateVersion(workdirs[i].version).value)]

\* the text of one generated wrapper function: its name, the generator's
\* dialect, the manager whose verbs it calls and the embedded snapshot
FnTok(name, dialect, manager, snapshot) == << "fn", name, dialect, manager, snapshot >>

\* `\n${HOOK_MARKER}\n npm() {...} \n${HOOK_END_MARKER}`
HookText(dialect, manager, snapshot) ==
    << NL >> \o HOOK_MARKER \o << NL, FnTok("npm", dialect, manager, snapshot), NL >>
        \o HOOK_END_MARKER

\* a generator result: threw, or the hook text ('' is the empty sequence)
Generated(h) == [threw |-> FALSE, hook |-> h]

GenThrew == [threw |-> TRUE, hook |-> << >>]

generateReliableBashHook(manager, workdirs) ==
    IF ValidationThrows(workdirs) THEN GenThrew
    ELSE IF manager = "nvm" \/ manager = "n"
         THEN Generated(HookText("posix", manager, validatedWorkdirs(workdirs)))
         ELSE Generated(<< >>)

generateReliableFishHook(manager, workdirs) ==
    IF ValidationThrows(workdirs) THEN GenThrew
    ELSE IF manager = "nvm" \/ manager = "n"
         THEN Generated(HookText("fish", manager, validatedWorkdirs(workdirs)))
         ELSE Generated(<< >>)

generatePowerShellHook(manager, workdirs) ==
    IF ValidationThrows(workdirs) THEN GenThrew
    ELSE IF manager = "nvm-windows" \/ manager = "fnm" \/ manager = "nvs"
         THEN Generated(HookText("powershell", manager, validatedWorkdirs(workdirs)))
         ELSE Generated(<< >>)

(***************************************************************************)
(* HookManager.addHook / removeHook                                        *)
(***************************************************************************)
\* least k > 1 with the end marker at s[k], s[k+1]; 0 when there is none
EndIndex(s) ==
    LET ks == { k \in 2..(Len(s) - 1) : s[k] = MARK /\ s[k + 1] = ENDTOK }
    IN  IF ks = {} THEN 0 ELSE CHOOSE k \in ks : \A j \in ks : k <= j

\* the removal pattern written for markers other than the ones the hook
\* carries: it never matches
RemoveHookBlocks_noMatch(s) == s

\* the removal pattern with a leading \n? : it also eats the newline that
\* ends the user's line before the block
RECURSIVE RemoveHookBlocks_eatsLineBefore(_)
RemoveHookBlocks_eatsLineBefore(s) ==
    IF s = << >> THEN << >>
    ELSE IF Len(s) >= 2 /\ Head(s) = NL /\ s[2] = MARK /\ EndIndex(Tail(s)) > 0
         THEN RemoveHookBlocks_eatsLineBefore(Tail(s))
    ELSE IF Head(s) = MARK /\ EndIndex(s) > 0
         THEN LET after == Drop(s, EndIndex(s) + 1)
              IN  RemoveHookBlocks_eatsLineBefore(IF after # << >> /\ Head(after) = NL
                                                  THEN Tail(after) ELSE after)
         ELSE << Head(s) >> \o RemoveHookBlocks_eatsLineBefore(Tail(s))

\* content.replace(/MARKER[\s\S]*?END_MARKER\n?/g, '')
RECURSIVE RemoveHookBlocks(_)
RemoveHookBlocks(s) ==
    IF s = << >> THEN << >>
    ELSE IF Head(s) = MARK /\ EndIndex(s) > 0
         THEN LET after == Drop(s, EndIndex(s) + 1)
              IN  RemoveHookBlocks(IF after # << >> /\ Head(after) = NL
                                   THEN Tail(after) ELSE after)
         ELSE << Head(s) >> \o RemoveHookBlocks(Tail(s))

\* the state of one file and what the call did:
\*   outcome "written"  the new content was written, success logged
\*           "skipped"  CMD file: warning, early return
\*           "nohook"   the generator returned '', nothing written, no error
\*           "threw"    the call raised an Error to the caller
FileResult(e, c, o) == [exists |-> e, content |-> c, outcome |-> o]

\* the dialect test of addHook and the generator it selects
generateHook(shellRcPath, manager, workdirs) ==
    IF isPowerShell(shellRcPath) THEN generatePowerShellHook(manager, workdirs)
    ELSE IF isFishShell(shellRcPath) THEN generateReliableFishHook(manager, workdirs)
    ELSE generateReliableBashHook(manager, workdirs)

\* if (!content.endsWith('\n')) content += '\n'
EndLine(c) == IF c = << >> \/ Last(c) # NL THEN Append(c, NL) ELSE c

\* the text addHook writes: the old text without its blocks, ended by a line
\* terminator unless it is empty, then the hook, ended by a line terminator
WithHook(c1, hook) == EndLine((IF c1 = << >> THEN c1 ELSE EndLine(c1)) \o hook)

\* the rest of addHook, given the text read (empty for a missing file, which
\* addHook has created by then) and what the generator returned
addHookWrites(shellRcPath, c0, g) ==
    IF ~isPowerShell(shellRcPath) /\ ~isFishShell(shellRcPath) /\ isCmdBatch(shellRcPath)
    THEN FileResult(TRUE, c0, "skipped")
    ELSE IF g.threw THEN FileResult(TRUE, c0, "threw")
    ELSE IF g.hook = << >> THEN FileResult(TRUE, c0, "nohook")
    ELSE FileResult(TRUE, WithHook(RemoveHookBlocks(c0), g.hook), "written")

\* HookManager.addHook
addHook(shellRcPath, exists, content, manager, workdirs) ==
    addHookWrites(shellRcPath, IF exists THEN content ELSE << >>,
                  generateHook(shellRcPath, manager, workdirs))

\*   outcome "nofile"   the file does not exist: warning, return
\*           "removed"  a block was found and the file rewritten
\*           "notfound" no block, file untouched
removeHook(exists, content) ==
    IF ~exists THEN FileResult(FALSE, << >>, "nofile")
    ELSE LET newContent == RemoveHookBlocks(content)
         IN  IF newContent # content THEN FileResult(TRUE, newContent, "removed")
             ELSE FileResult(TRUE, content, "notfound")

(***************************************************************************)
(* The generated wrapper function at run time.                             *)
(*                                                                         *)
(* variant names the template the wrapper was rendered from:               *)
(*   "hm_posix"  HookManager.generateReliableBashHook                      *)
(*   "cfg_posix" BashShellConfig.getTemplates                              *)
(*   "cfg_fish"  FishShellConfig.getTemplates                              *)
(*   "cfg_ps"    PowerShellConfig.getTemplates                             *)
(*   "hm_ps"     HookManager.generatePowerShellHook, nvm-windows           *)
(* shell names the shell that sources the startup file and runs it.        *)
(***************************************************************************)
VariantShells ==
    { << "hm_posix", "bash" >>, << "hm_posix", "zsh" >>,
      << "cfg_posix", "bash" >>, << "cfg_posix", "zsh" >>,
      << "hm_fish", "fish" >>, << "cfg_fish", "fish" >>,
      << "cfg_ps", "powershell" >>, << "hm_ps", "powershell" >> }

IsPosix(v) == v \in { "hm_posix", "cfg_posix" }

\* templates whose switch block sets INT and EXIT traps
ArmsTraps(v) == v \in { "hm_posix", "cfg_posix", "hm_fish" }

\* templates whose switch block restores with a statement after the real
\* command
RestoresInline(v) == v \in { "cfg_fish", "cfg_ps", "hm_ps" }

\* [ "$CURRENT_DIR" = "$work_dir" ] || echo "$CURRENT_DIR" | grep -q "^$work_dir/"
\* the directory is used as a regular expression: "." matches any character
GrepMatches(cur, dir) ==
    \/ cur = dir
    \/ /\ Len(cur) > Len(dir)
       /\ \A i \in 1..Len(dir) : dir[i] = "." \/ dir[i] = cur[i]
       /\ cur[Len(dir) + 1] = "/"

\* cwd == dir, or cwd starts with dir + separator (Fish glob "$work_dir/*",
\* PowerShell StartsWith)
PrefixMatches(cur, dir) ==
    \/ cur = dir
    \/ IsPrefixOf(dir \o << "/" >>, cur)

\* indexes of the entries that match, for a given matching rule
MatchingGrep(entries, cur) == { i \in 1..Len(entries) : GrepMatches(cur, entries[i].dir) }

MatchingPrefix(entries, cur) == { i \in 1..Len(entries) : PrefixMatches(cur, entries[i].dir) }

NoVersion == << >>

\* HookManager bash hook: sed 's/.*"dir":"\([^"]*\)".*/\1/' on the whole
\* JSON text; the leading .* is greedy, so the last entry is the one
\* extracted, and it is the only one compared
ResolveHmPosix(entries, cur) ==
    IF entries # << >> /\ GrepMatches(cur, Last(entries).dir)
    THEN Last(entries).version ELSE NoVersion

\* BashShellConfig template: one entry per line, `echo | while read` stops
\* at the first entry that matches and exports ANS_TARGET_VERSION.  bash
\* runs the loop of a pipeline in a subshell, so the export is lost there;
\* zsh runs it in the current shell.
ResolveCfgPosix(sh, entries, cur) ==
    LET m == MatchingGrep(entries, cur)
    IN  IF sh = "bash" \/ m = {} THEN NoVersion
        ELSE entries[CHOOSE i \in m : \A j \in m : i <= j].version

\* FishShellConfig template: string match -r (without -a) reports the first
\* match only, tail -1 keeps its capture group: the first entry
ResolveCfgFish(entries, cur) ==
    IF entries # << >> /\ PrefixMatches(cur, entries[1].dir)
    THEN entries[1].version ELSE NoVersion

\* PowerShellConfig template: foreach with $BestLength, strictly longer wins
ResolveCfgPs(entries, cur) ==
    LET m == MatchingPrefix(entries, cur)
    IN  IF m = {} THEN NoVersion
        ELSE entries[CHOOSE i \in m :
                        \A j \in m : \/ Len(entries[j].dir) < Len(entries[i].dir)
                                     \/ (Len(entries[j].dir) = Len(entries[i].dir) /\ i <= j)
                    ].version

\* HookManager Fish hook: the JSON is handed to python3, else python, which
\* keep the longest matching entry; with neither installed WORKDIR_INFO
\* stays empty
ResolveHmFish(entries, cur) == { ResolveCfgPs(entries, cur), NoVersion }

\* the values TARGET_VERSION can take after the matching step.
\* HookManager's PowerShell hook pipes hashtables into Sort-Object length;
\* which matching entry comes first then depends on the PowerShell host, so
\* every matching entry is a possible outcome.
ResolveOutcomes(v, sh, entries, cur) ==
    CASE v = "hm_posix"  -> { ResolveHmPosix(entries, cur) }
      [] v = "cfg_posix" -> { ResolveCfgPosix(sh, entries, cur) }
      [] v = "hm_fish"   -> ResolveHmFish(entries, cur)
      [] v = "cfg_fish"  -> { ResolveCfgFish(entries, cur) }
      [] v = "cfg_ps"    -> { ResolveCfgPs(entries, cur) }
      [] v = "hm_ps"     -> IF MatchingPrefix(entries, cur) = {} THEN { NoVersion }
                            ELSE { entries[i].version : i \in MatchingPrefix(entries, cur) }

\* the test that guards the switch block:
\* [ -n "$TARGET_VERSION" ] && [ "$TARGET_VERSION" != "$PREVIOUS_VERSION" ]
SwitchNeeded_ignoresPrevious(target, previous) == target # NoVersion

SwitchNeeded(target, previous) == target # NoVersion /\ target # previous

\* one logged step of a wrapper run
\*   k    "use" | "install" | "exec" | "return"
\*   v    the version handed to the version manager
\*   by   "body" (a statement of the function) | "trap" (a trap action)
\*   out  "ok" | "fail" | "throw" | "killed"
\*   code exit status of the real command / value returned
Ev(k, v, by, out, code) == [k |-> k, v |-> v, by |-> by, out |-> out, code |-> code]

\* what a version-manager call can do: succeed, exit non-zero, or (under
\* PowerShell's try) raise a terminating error
ManagerOutcomes(sh) == IF sh = "powershell" THEN { "ok", "fail", "throw" } ELSE { "ok", "fail" }

\* the calls of the switch block, given what each call does:
\*   POSIX       use || (install && use)
\*   Fish        use; on failure install; use
\*   PowerShell  use; if ($LASTEXITCODE -ne 0) { install; use }, a throw
\*               leaves the try block
SwitchScript(v, target, u1, i1, u2) ==
    LET use1 == Ev("use", target, "body", u1, 0)
        inst == Ev("install", target, "body", i1, 0)
        use2 == Ev("use", target, "body", u2, 0)
    IN  IF u1 # "fail" THEN << use1 >>
        ELSE IF IsPosix(v)
             THEN IF i1 = "ok" THEN << use1, inst, use2 >> ELSE << use1, inst >>
             ELSE IF i1 = "throw" THEN << use1, inst >> ELSE << use1, inst, use2 >>

Threw(script) == Last(script).out = "throw"

\* the active version after a run of manager calls
RECURSIVE ActiveAfter(_, _)
ActiveAfter(script, act) ==
    IF script = << >> THEN act
    ELSE ActiveAfter(Tail(script),
                     IF Head(script).k = "use" /\ Head(script).out = "ok"
                     THEN Head(script).v ELSE act)

\* where control goes after the switch block: the statements that follow it
\* run whatever the calls returned; only a throw enters the catch block
AfterSwitchPc_abortOnFailure(script) ==
    IF Threw(script) THEN "catch"
    ELSE IF Last(script).out = "fail" THEN "ret" ELSE "exec"

AfterSwitchPc(script) == IF Threw(script) THEN "catch" ELSE "exec"

\* $LASTEXITCODE after a native command
CodeOf(out) == IF out = "ok" THEN 0 ELSE 1

NoTrap == [set |-> FALSE, previous |-> NoVersion, inv |-> 0]

Trap(previous, n) == [set |-> TRUE, previous |-> previous, inv |-> n]

\* the version a trap action will restore.  The POSIX templates expand
\* $PREVIOUS_VERSION into the action text when trap is run.  The Fish hook
\* registers the function restore_version, which reads $PREVIOUS_VERSION
\* when it runs; that variable is local to the wrapper function and a Fish
\* function does not see its caller's locals, so it reads empty and the
\* `test -n` around the manager call is false.
TrapSees(v, previous) == IF v = "hm_fish" THEN NoVersion ELSE previous

NoResult == [how |-> "none", value |-> 0]

Result(how, value) == [how |-> how, value |-> value]

SIGINT_STATUS == 130

ExitCodes == { 0, 1 }

(***************************************************************************)
(* State                                                                   *)
(***************************************************************************)
VARIABLES
    rcPath,     \* the startup file the tool works on ("none": no file in play)
    rcExists,   \* whether that file exists on disk
    rcContent,  \* its content, a sequence of file tokens
    last,       \* the most recent HookManager call and what it did
    prev,       \* the call before that
    nOps,       \* number of calls made so far
    variant,    \* template the sourced wrapper was rendered from
    shell,      \* shell running the wrapper
    registry,   \* registry snapshot embedded in the wrapper (WORKDIRS)
    cwd,        \* current directory of the shell
    active,     \* Node version active in the shell session (<< >>: none)
    pc,         \* position in the wrapper; "idle": at the prompt
    PREVIOUS_VERSION,
    TARGET_VERSION,
    branch,     \* "try" (switch block), "catch", "else" (direct execution)
    exit_code,  \* the wrapper's local exit_code / $ExitCode
    trapINT,    \* the shell's INT trap
    trapEXIT,   \* the shell's EXIT trap
    LASTEXITCODE, \* PowerShell's $LASTEXITCODE
    events,     \* what the current invocation did, in order
    result,     \* how the current invocation ended
    interrupted, \* the real command was ended by Ctrl+C
    inv,        \* number of wrapper invocations so far
    config,     \* the registry file config.json
    backups,    \* the files of the backups directory
    now,        \* the clock, in milliseconds
    cmd,        \* the most recent command of the tool and what it started from
    out,        \* what that command did and printed, in order
    status,     \* its exit status ("none": no command has run)
    nCmds,      \* number of commands run so far
    call,       \* a library function call: function and argument
    ret,        \* what that call returned ("none" or Pending: not yet made)
    data,       \* ConfigCache.data of the running process
    lastModified, \* ConfigCache.lastModified
    mtime,      \* modification time of config.json, in milliseconds
    heap        \* the arrays of the running process, by address

fileVars == << rcPath, rcExists, rcContent, last, prev, nOps >>

sessionVars ==
    << variant, shell, registry, cwd, active, pc, PREVIOUS_VERSION, TARGET_VERSION,
       branch, exit_code, trapINT, trapEXIT, LASTEXITCODE, events, result,
       interrupted, inv >>

toolVars == << config, backups, now, cmd, out, status, nCmds >>

callVars == << call, ret >>

cacheVars == << data, lastModified, mtime, heap >>

vars == << fileVars, sessionVars, toolVars, callVars, cacheVars >>

(***************************************************************************)
(* Inputs of the injection engine                                          *)
(***************************************************************************)
DirP == << "/", "p" >>

DirQ == << "/", "q" >>

V18 == << "1", "8" >>

V20v == << "v", "2", "0" >>

\* registry snapshots handed to addHook; the last one holds an entry that
\* Security.validatePath rejects
Snapshots ==
    { << Workdir(DirP, V18) >>,
      << Workdir(DirP, V18), Workdir(DirQ, V20v) >>,
      << Workdir(DirP \o << ";" >>, V18) >> }

\* a block as an earlier run of the tool left it
OldBlock ==
    HOOK_MARKER \o << NL, FnTok("npm", "posix", "nvm", << >>), NL >> \o HOOK_END_MARKER

\* user-owned text around the block
UserTexts ==
    { << >>, << Txt("x") >>, << Txt("x"), NL >>, << NL, Txt("y") >> }

InitialContents ==
    { t : t \in UserTexts } \cup
    { a \o OldBlock \o b : a \in UserTexts, b \in UserTexts }

NoOp ==
    [op |-> "none", manager |-> "none", workdirs |-> << >>,
     before |-> FileResult(FALSE, << >>, "none"),
     after |-> FileResult(FALSE, << >>, "none")]

\* no shell session in play
NoSession ==
    /\ variant = "none" /\ shell = "none" /\ registry = << >> /\ cwd = << >>
    /\ active = NoVersion /\ pc = "off"
    /\ PREVIOUS_VERSION = NoVersion /\ TARGET_VERSION = NoVersion
    /\ branch = "none" /\ exit_code = 0
    /\ trapINT = NoTrap /\ trapEXIT = NoTrap /\ LASTEXITCODE = 0
    /\ events = << >> /\ result = NoResult /\ interrupted = FALSE /\ inv = 0

\* no command of the tool in play
NoTool ==
    /\ config = [exists |-> FALSE, shell |-> "", manager |-> "", workdirs |-> << >>]
    /\ backups = {} /\ now = 0
    /\ cmd = [name |-> "none"] /\ out = << >> /\ status = "none" /\ nCmds = 0

\* no library call in play
NoCall == call = [fn |-> "none"] /\ ret = "none"

\* no registry cache in play: the ConfigCache as constructed (config.ts 103-104)
NoCache == data = [set |-> FALSE] /\ lastModified = 0 /\ mtime = 0 /\ heap = << >>

\* no startup file in play
NoFile ==
    /\ rcPath = "none" /\ rcExists = FALSE /\ rcContent = << >>
    /\ last = NoOp /\ prev = NoOp /\ nOps = 0

InitInject ==
    /\ NoSession
    /\ NoTool
    /\ NoCall
    /\ NoCache
    /\ rcPath \in RcPaths
    /\ \/ rcExists = FALSE /\ rcContent = << >>
       \/ rcExists = TRUE /\ rcContent \in InitialContents
    /\ last = NoOp
    /\ prev = NoOp
    /\ nOps = 0

(***************************************************************************)
(* Operations on the startup file.  CLI add and regenerate reach the file  *)
(* only through addHook, CLI clean only through removeHook.                *)
(***************************************************************************)
AddHook(manager, workdirs) ==
    /\ rcPath # "none"
    /\ nOps < MaxOps
    /\ LET r == addHook(rcPath, rcExists, rcContent, manager, workdirs) IN
       /\ rcExists' = r.exists
       /\ rcContent' = r.content
       /\ last' = [op |-> "add", manager |-> manager, workdirs |-> workdirs,
                   before |-> FileResult(rcExists, rcContent, "none"),
                   after |-> r]
    /\ prev' = last
    /\ nOps' = nOps + 1
    /\ UNCHANGED << rcPath, sessionVars, toolVars, callVars, cacheVars >>

RemoveHook ==
    /\ rcPath # "none"
    /\ nOps < MaxOps
    /\ LET r == removeHook(rcExists, rcContent) IN
       /\ rcExists' = r.exists
       /\ rcContent' = r.content
       /\ last' = [op |-> "remove", manager |-> "none", workdirs |-> << >>,
                   before |-> FileResult(rcExists, rcContent, "none"),
                   after |-> r]
    /\ prev' = last
    /\ nOps' = nOps + 1
    /\ UNCHANGED << rcPath, sessionVars, toolVars, callVars, cacheVars >>

NextInject ==
    \/ \E m \in Managers, w \in Snapshots : AddHook(m, w)
    \/ RemoveHook

SpecInject == InitInject /\ [][NextInject]_vars

(***************************************************************************)
(* Startup files that hold a block between the marker lines of the unit    *)
(* tests.  To addHook and removeHook these lines are text like any other.  *)
(***************************************************************************)
AUTO_NODE_SWITCH_HOOK_START == Txt("# AUTO_NODE_SWITCH_HOOK_START")

AUTO_NODE_SWITCH_HOOK_END == Txt("# AUTO_NODE_SWITCH_HOOK_END")

\* the block of the fixture: the two marker lines around `npm() { echo "test"; }`
TestBlock ==
    << AUTO_NODE_SWITCH_HOOK_START, NL, FnTok("npm", "posix", "none", << >>), NL,
       AUTO_NODE_SWITCH_HOOK_END >>

\* the file the removal test writes
contentWithHook ==
    << Txt("# Test config"), NL >> \o TestBlock \o << NL, Txt("# Other config") >>

\* the fixture, its block alone and at the end of user text, and its block
\* followed by a block an earlier run of the tool left
MigrateContents ==
    { contentWithHook,
      TestBlock,
      << Txt("x"), NL >> \o TestBlock \o << NL >>,
      TestBlock \o << NL >> \o OldBlock,
      << Txt("x"), NL >> \o TestBlock \o << NL >> \o OldBlock \o << NL, Txt("y") >> }

InitMigrate ==
    /\ NoSession
    /\ NoTool
    /\ NoCall
    /\ NoCache
    /\ rcPath \in RcPaths
    /\ rcExists = TRUE
    /\ rcContent \in MigrateContents
    /\ last = NoOp
    /\ prev = NoOp
    /\ nOps = 0

SpecMigrate == InitMigrate /\ [][NextInject]_vars

(***************************************************************************)
(* A shell session that has sourced the startup file: the user runs the    *)
(* wrapped command at the prompt, possibly presses Ctrl+C while the real   *)
(* command runs, and finally leaves the shell.                             *)
(***************************************************************************)
DirPA == << "/", "p", "/", "a" >>

DirPAB == << "/", "p", "/", "a", "/", "b" >>

DirPABE == << "/", "p", "/", "a", "/", "b", "/", "e" >>

DirPX == << "/", "p", "/", "x" >>

DirO == << "/", "o" >>

V16 == << "1", "6" >>

V20 == << "2", "0" >>

SessionRegistries ==
    { << Workdir(DirP, V18) >>, << Workdir(DirP, V18), Workdir(DirPA, V20) >> }

SessionCwds == { DirPA, DirO }

ActiveVersions == { NoVersion, V18, V20 }

SessionStart(regs, acts) ==
    /\ NoFile
    /\ NoTool
    /\ NoCall
    /\ NoCache
    /\ \E vs \in VariantShells : variant = vs[1] /\ shell = vs[2]
    /\ registry \in regs
    /\ active \in acts
    /\ cwd = DirO
    /\ pc = "idle"
    /\ PREVIOUS_VERSION = NoVersion /\ TARGET_VERSION = NoVersion
    /\ branch = "none" /\ exit_code = 0
    /\ trapINT = NoTrap /\ trapEXIT = NoTrap /\ LASTEXITCODE = 0
    /\ events = << >> /\ result = NoResult /\ interrupted = FALSE /\ inv = 0

InitWrapper == SessionStart(SessionRegistries, ActiveVersions)

\* the user runs `npm ...` in directory c: the wrapper reads the active
\* version (node -v, leading v stripped) and resolves the target
Invoke(c) ==
    /\ pc = "idle"
    /\ inv < MaxInvocations
    /\ cwd' = c
    /\ inv' = inv + 1
    /\ PREVIOUS_VERSION' = active
    /\ TARGET_VERSION' \in ResolveOutcomes(variant, shell, registry, c)
    /\ branch' = "none" /\ exit_code' = 0
    /\ events' = << >> /\ result' = NoResult /\ interrupted' = FALSE
    /\ pc' = "decide"
    /\ UNCHANGED << fileVars, toolVars, callVars, cacheVars, variant, shell, registry, active, trapINT, trapEXIT,
                    LASTEXITCODE >>

\* the switch block: use, install on failure, and in the POSIX templates
\* the two trap commands, whose action text is expanded when trap is run
SwitchVersion ==
    /\ pc = "decide"
    /\ SwitchNeeded(TARGET_VERSION, PREVIOUS_VERSION)
    /\ \E u1 \in ManagerOutcomes(shell), i1 \in ManagerOutcomes(shell),
          u2 \in ManagerOutcomes(shell) :
         LET script == SwitchScript(variant, TARGET_VERSION, u1, i1, u2) IN
         /\ events' = events \o script
         /\ active' = ActiveAfter(script, active)
         /\ pc' = AfterSwitchPc(script)
         /\ LASTEXITCODE' = IF shell = "powershell" /\ ~Threw(script)
                            THEN CodeOf(Last(script).out) ELSE LASTEXITCODE
    /\ branch' = "try"
    /\ IF ArmsTraps(variant)
       THEN /\ trapINT' = Trap(TrapSees(variant, PREVIOUS_VERSION), inv)
            /\ trapEXIT' = Trap(TrapSees(variant, PREVIOUS_VERSION), inv)
       ELSE UNCHANGED << trapINT, trapEXIT >>
    /\ UNCHANGED << fileVars, toolVars, callVars, cacheVars, variant, shell, registry, cwd, PREVIOUS_VERSION,
                    TARGET_VERSION, exit_code, result, interrupted, inv >>

\* the test of the switch block is false: straight to the real command
SkipSwitch ==
    /\ pc = "decide"
    /\ ~SwitchNeeded(TARGET_VERSION, PREVIOUS_VERSION)
    /\ branch' = "else"
    /\ pc' = "exec"
    /\ UNCHANGED << fileVars, toolVars, callVars, cacheVars, variant, shell, registry, cwd, active, PREVIOUS_VERSION,
                    TARGET_VERSION, exit_code, trapINT, trapEXIT, LASTEXITCODE,
                    events, result, interrupted, inv >>

\* `command npm "$@"` / `& npm.cmd @args` runs to completion with status c
ExecCommand(c) ==
    /\ pc = "exec"
    /\ events' = Append(events, Ev("exec", NoVersion, "body", "ok", c))
    /\ exit_code' = c
    /\ LASTEXITCODE' = IF shell = "powershell" THEN c ELSE LASTEXITCODE
    /\ pc' = IF RestoresInline(variant) /\ branch = "try" THEN "post" ELSE "ret"
    /\ UNCHANGED << fileVars, toolVars, callVars, cacheVars, variant, shell, registry, cwd, active, PREVIOUS_VERSION,
                    TARGET_VERSION, branch, trapINT, trapEXIT, result, interrupted, inv >>

\* Ctrl+C while the real command runs; the command dies of SIGINT.
\*   bash/zsh with an INT trap: the trap action runs, the function goes on
\*   bash/zsh without one, Fish, PowerShell: the running function is
\*   abandoned and the prompt returns (the Fish hook's handler then runs
\*   restore_version, which makes no manager call, see TrapSees)
InterruptCommand ==
    /\ pc = "exec"
    /\ interrupted' = TRUE
    /\ exit_code' = SIGINT_STATUS
    /\ LASTEXITCODE' = IF shell = "powershell" THEN SIGINT_STATUS ELSE LASTEXITCODE
    /\ IF IsPosix(variant) /\ trapINT.set
       THEN \E o \in ManagerOutcomes(shell) :
              /\ events' = events \o
                     << Ev("exec", NoVersion, "body", "killed", SIGINT_STATUS),
                        Ev("use", trapINT.previous, "trap", o, trapINT.inv) >>
              /\ active' = IF o = "ok" THEN trapINT.previous ELSE active
              /\ pc' = "ret"
              /\ result' = result
       ELSE /\ events' = Append(events, Ev("exec", NoVersion, "body", "killed", SIGINT_STATUS))
            /\ active' = active
            /\ pc' = "idle"
            /\ result' = Result("aborted", SIGINT_STATUS)
    /\ UNCHANGED << fileVars, toolVars, callVars, cacheVars, variant, shell, registry, cwd, PREVIOUS_VERSION,
                    TARGET_VERSION, branch, trapINT, trapEXIT, inv >>

\* Fish and PowerShell: the statement after the real command in the switch
\* block, `if test -n "$PREVIOUS_VERSION"` / `if ($PREVIOUS_VERSION)`
RestoreVersion ==
    /\ pc = "post"
    /\ IF PREVIOUS_VERSION # NoVersion
       THEN \E o \in ManagerOutcomes(shell) :
              /\ events' = Append(events, Ev("use", PREVIOUS_VERSION, "body", o, 0))
              /\ active' = IF o = "ok" THEN PREVIOUS_VERSION ELSE active
              /\ pc' = IF o = "throw" THEN "catch" ELSE "ret"
              /\ LASTEXITCODE' = IF shell = "powershell" /\ o # "throw"
                                 THEN CodeOf(o) ELSE LASTEXITCODE
       ELSE /\ pc' = "ret"
            /\ UNCHANGED << events, active, LASTEXITCODE >>
    /\ UNCHANGED << fileVars, toolVars, callVars, cacheVars, variant, shell, registry, cwd, PREVIOUS_VERSION,
                    TARGET_VERSION, branch, exit_code, trapINT, trapEXIT, result,
                    interrupted, inv >>

\* PowerShell catch block: report, then run the real command
CatchHandler(c) ==
    /\ pc = "catch"
    /\ events' = Append(events, Ev("exec", NoVersion, "body", "ok", c))
    /\ exit_code' = c
    /\ LASTEXITCODE' = c
    /\ branch' = "catch"
    /\ pc' = "ret"
    /\ UNCHANGED << fileVars, toolVars, callVars, cacheVars, variant, shell, registry, cwd, active, PREVIOUS_VERSION,
                    TARGET_VERSION, trapINT, trapEXIT, result, interrupted, inv >>

\* how each template ends a run that reached its last statement
\*   POSIX, Fish   return $exit_code
\*   cfg_ps        return $ExitCode / return $LASTEXITCODE: the value is
\*                 written to the function's output
\*   hm_ps         try block: $global:LASTEXITCODE = $exitCode; exit $exitCode
\*                 catch and else blocks: nothing after the real command
EndOfWrapper(v, br, code) ==
    CASE v = "hm_ps" /\ br = "try" -> Result("exit", code)
      [] v = "hm_ps" /\ br # "try" -> Result("fallthrough", 0)
      [] OTHER                     -> Result("return", code)

\* the function ends.  zsh runs an EXIT trap set inside a function when
\* that function returns, and then drops it; bash keeps it for the exit of
\* the shell.  `exit` in a PowerShell function ends the session.
Return ==
    /\ pc = "ret"
    /\ result' = EndOfWrapper(variant, branch, exit_code)
    /\ IF shell = "zsh" /\ trapEXIT.set
       THEN \E o \in ManagerOutcomes(shell) :
              /\ events' = events \o
                     << Ev("use", trapEXIT.previous, "trap", o, trapEXIT.inv),
                        Ev("return", NoVersion, "body", "ok", exit_code) >>
              /\ active' = IF o = "ok" THEN trapEXIT.previous ELSE active
              /\ trapEXIT' = NoTrap
       ELSE /\ events' = Append(events, Ev("return", NoVersion, "body", "ok", exit_code))
            /\ UNCHANGED << active, trapEXIT >>
    /\ LASTEXITCODE' = IF variant = "hm_ps" /\ branch = "try" THEN exit_code ELSE LASTEXITCODE
    /\ pc' = IF variant = "hm_ps" /\ branch = "try" THEN "ended" ELSE "idle"
    /\ UNCHANGED << fileVars, toolVars, callVars, cacheVars, variant, shell, registry, cwd, PREVIOUS_VERSION,
                    TARGET_VERSION, branch, exit_code, trapINT, interrupted, inv >>

\* the user leaves the shell; bash runs its EXIT trap now
ShellExit ==
    /\ pc = "idle"
    /\ IF shell = "bash" /\ trapEXIT.set
       THEN \E o \in ManagerOutcomes(shell) :
              /\ events' = Append(events, Ev("use", trapEXIT.previous, "trap", o, trapEXIT.inv))
              /\ active' = IF o = "ok" THEN trapEXIT.previous ELSE active
       ELSE UNCHANGED << events, active >>
    /\ trapEXIT' = NoTrap
    /\ trapINT' = NoTrap
    /\ pc' = "ended"
    /\ UNCHANGED << fileVars, toolVars, callVars, cacheVars, variant, shell, registry, cwd, PREVIOUS_VERSION,
                    TARGET_VERSION, branch, exit_code, LASTEXITCODE, result,
                    interrupted, inv >>

NextWrapper ==
    \/ \E c \in SessionCwds : Invoke(c)
    \/ SwitchVersion
    \/ SkipSwitch
    \/ \E c \in ExitCodes : ExecCommand(c)
    \/ InterruptCommand
    \/ RestoreVersion
    \/ \E c \in ExitCodes : CatchHandler(c)
    \/ Return
    \/ ShellExit

SpecWrapper == InitWrapper /\ [][NextWrapper]_vars

(***************************************************************************)
(* Target resolution on its own: every order of the three nested entries,  *)
(* one invocation from each directory of interest.                         *)
(***************************************************************************)
EntryP == Workdir(DirP, V16)

EntryPA == Workdir(DirPA, V18)

EntryPAB == Workdir(DirPAB, V20)

NestedRegistries ==
    { << EntryP, EntryPA, EntryPAB >>, << EntryP, EntryPAB, EntryPA >>,
      << EntryPA, EntryP, EntryPAB >>, << EntryPA, EntryPAB, EntryP >>,
      << EntryPAB, EntryP, EntryPA >>, << EntryPAB, EntryPA, EntryP >> }

ResolveCwds == { DirPABE, DirPX, DirO, DirPA }

InitResolve == SessionStart(NestedRegistries, { NoVersion })

NextResolve == \E c \in ResolveCwds : Invoke(c)

SpecResolve == InitResolve /\ [][NextResolve]_vars

(***************************************************************************)
(* The registry file, its backups, and the commands of the tool: the CLI   *)
(* handlers of cli.tsx and the add / delete screens of app.tsx.            *)
(***************************************************************************)
MaxBackups == 5

AppConfig(sh, m, w) == [shell |-> sh, manager |-> m, workdirs |-> w]

\* the registry file: missing, or holding an AppConfig
ConfigFile(c) == [exists |-> TRUE, shell |-> c.shell, manager |-> c.manager,
                  workdirs |-> c.workdirs]

\* ConfigCache.validateConfig: entries without a dir or a version are dropped
validateConfig(c) ==
    AppConfig(c.shell, c.manager,
              SelectSeq(c.workdirs, LAMBDA w : Len(w.dir) > 0 /\ Len(w.version) > 0))

\* ConfigCache.getConfig: the default configuration when there is no file
getConfig(file) ==
    IF ~file.exists THEN AppConfig("", "", << >>)
    ELSE validateConfig(AppConfig(file.shell, file.manager, file.workdirs))

\* one line of a command's trace
\*   k      "msg" (printed), "save" (config.json written), "regen" (addHook
\*          called on the startup file), "clean" (removeHook called)
\*   level  of a message: "success" (printed with the check mark), "info",
\*          "warn", "error"
\*   kind   what the message says
\*   old, new  the versions the message shows
Out(k, level, kind, old, new) ==
    [k |-> k, level |-> level, kind |-> kind, old |-> old, new |-> new]

Msg(level, kind) == Out("msg", level, kind, NoVersion, NoVersion)

Effect(k) == Out(k, "none", "none", NoVersion, NoVersion)

\* a backup file: its name carries the millisecond timestamp of its creation
Backup(t) == [name |-> t, mtime |-> t]

\* cleanupOldBackups: sort by mtime, newest first, unlink all after the fifth
cleanupOldBackups(bk) ==
    IF Cardinality(bk) > MaxBackups
    THEN { b \in bk : Cardinality({ c \in bk : c.mtime > b.mtime }) < MaxBackups }
    ELSE bk

\* createBackup at time t: nothing when there is no registry file yet;
\* copyFileSync replaces a backup that carries the same name
createBackup(file, bk, t) ==
    IF ~file.exists THEN bk
    ELSE cleanupOldBackups({ b \in bk : b.name # t } \cup { Backup(t) })

\* ConfigCache.saveConfig at time t
saveConfig(c, file, bk, t) ==
    [file |-> ConfigFile(validateConfig(c)),
     backups |-> createBackup(file, bk, t),
     out |-> << Effect("save"), Msg("success", "saved") >>]

\* config.workdirs.findIndex(w => path.resolve(w.dir) === validatedPath),
\* 0 when there is none
findIndex_never(workdirs, validatedPath) == 0

findIndex(workdirs, validatedPath) ==
    LET m == { i \in 1..Len(workdirs) : PathResolve(workdirs[i].dir) = validatedPath }
    IN  IF m = {} THEN 0 ELSE CHOOSE i \in m : \A j \in m : i <= j

\* getShellConfigFiles gives one startup file per shell type
ShellOfRc(path) ==
    CASE path = ".bashrc"     -> "bash"
      [] path = "config.fish" -> "fish"
      [] path = "profile.ps1" -> "powershell"
      [] path = "init.cmd"    -> "cmd"

\* what a command leaves behind
Done(file, bk, t, rc, o, st) ==
    [file |-> file, backups |-> bk, now |-> t, rc |-> rc, out |-> o, status |-> st]

\* the forEach over the startup files with the generatedCount it keeps
regenerated(r, kind) ==
    [rc |-> r,
     out |-> << Effect("regen") >> \o
             (IF r.outcome = "threw" THEN << Msg("warn", "hook_failed") >>
              ELSE << Msg("success", kind) >>)]

regenerateFiles(c, path, exists, content, kind) ==
    regenerated(addHook(path, exists, content, c.manager, c.workdirs), kind)

\* `const x = value` followed by the statements that use x
Bind(value, Rest(_)) == Rest(value)

\* handleRegenerateCommand
handleRegenerateCommand(file, bk, t, path, exists, content) ==
    Bind(getConfig(file), LAMBDA c :
    IF c.shell = "" \/ c.manager = ""
    THEN Done(file, bk, t, FileResult(exists, content, "none"),
              << Msg("error", "not_configured") >>, 1)
    ELSE IF c.workdirs = << >>
    THEN Done(file, bk, t, FileResult(exists, content, "none"),
              << Msg("warn", "no_projects") >>, 0)
    ELSE Bind(regenerateFiles(c, path, exists, content, "regenerated"), LAMBDA g :
         Done(file, bk, t, g.rc, g.out, 0)))

\* the message handleError prints for a validator's error
ErrorMsg(e) == Out("msg", "error", e.code, NoVersion, NoVersion)

\* handleAddCommand(projectPath, version) at time t
handleAddCommand(projectPath, version, file, bk, t, path, exists, content) ==
    Bind(FileResult(exists, content, "none"), LAMBDA same :
    Bind(validatePath(projectPath), LAMBDA vp :
    Bind(validateVersion(version), LAMBDA vv :
    IF projectPath = << >> \/ version = << >>
    THEN Done(file, bk, t, same, << Msg("error", "usage") >>, 1)
    ELSE IF ~vp.ok THEN Done(file, bk, t, same, << ErrorMsg(vp) >>, 1)
    ELSE IF ~vv.ok THEN Done(file, bk, t, same, << ErrorMsg(vv) >>, 1)
    ELSE
    Bind(getConfig(file), LAMBDA c :
    Bind(findIndex(c.workdirs, vp.value), LAMBDA existingIndex :
    Bind(IF existingIndex > 0
         THEN [c.workdirs EXCEPT ![existingIndex].version = vv.value]
         ELSE Append(c.workdirs, Workdir(vp.value, vv.value)), LAMBDA workdirs :
    Bind(IF existingIndex > 0
         THEN Out("msg", "warn", "exists_update", NoVersion, vv.value)
         ELSE Out("msg", "success", "added", NoVersion, vv.value), LAMBDA msg :
    Bind(saveConfig(AppConfig(c.shell, c.manager, workdirs), file, bk, t), LAMBDA sv :
    IF c.shell # "" /\ c.manager # ""
    THEN Bind(handleRegenerateCommand(sv.file, sv.backups, t, path, exists, content),
              LAMBDA g :
              Done(sv.file, sv.backups, t, g.rc, << msg >> \o sv.out \o g.out, g.status))
    ELSE Done(sv.file, sv.backups, t, same,
              << msg >> \o sv.out \o << Msg("warn", "not_configured") >>, 0)))))))))

\* handleRemoveCommand(projectPath) at time t
handleRemoveCommand(projectPath, file, bk, t, path, exists, content) ==
    Bind(FileResult(exists, content, "none"), LAMBDA same :
    Bind(validatePath(projectPath), LAMBDA vp :
    IF projectPath = << >>
    THEN Done(file, bk, t, same, << Msg("error", "usage") >>, 1)
    ELSE IF ~vp.ok THEN Done(file, bk, t, same, << ErrorMsg(vp) >>, 1)
    ELSE
    Bind(getConfig(file), LAMBDA c :
    Bind(SelectSeq(c.workdirs, LAMBDA w : PathResolve(w.dir) # vp.value), LAMBDA workdirs :
    Bind(saveConfig(AppConfig(c.shell, c.manager, workdirs), file, bk, t), LAMBDA sv :
    IF Len(workdirs) < Len(c.workdirs)
    THEN IF c.shell # "" /\ c.manager # ""
         THEN Bind(handleRegenerateCommand(sv.file, sv.backups, t, path, exists, content),
                   LAMBDA g :
                   Done(sv.file, sv.backups, t, g.rc,
                        << Msg("success", "removed") >> \o sv.out \o g.out, g.status))
         ELSE Done(sv.file, sv.backups, t, same,
                   << Msg("success", "removed") >> \o sv.out, 0)
    ELSE Done(file, bk, t, same, << Msg("warn", "not_found") >>, 0))))))

\* handleCleanCommand
handleCleanCommand(file, bk, t, path, exists, content) ==
    LET c == getConfig(file)
        r == removeHook(exists, content)
    IN  IF c.shell = ""
        THEN Done(file, bk, t, FileResult(exists, content, "none"),
                  << Msg("error", "no_shell") >>, 1)
        ELSE Done(file, bk, t, r, << Effect("clean"), Msg("success", "cleaned") >>, 0)

\* AddProject.handleVersionSubmit(version) of the interactive mode, after
\* handleDirSubmit(dir) has validated the directory; c is the screen's config
handleVersionSubmit(dir, version, file, bk, t, path, exists, content) ==
    Bind(FileResult(exists, content, "none"), LAMBDA same :
    Bind(validatePath(dir), LAMBDA vp :
    Bind(validateVersion(version), LAMBDA vv :
    IF ~vp.ok THEN Done(file, bk, t, same, << ErrorMsg(vp) >>, 0)
    ELSE IF ~vv.ok THEN Done(file, bk, t, same, << ErrorMsg(vv) >>, 0)
    ELSE
    Bind(getConfig(file), LAMBDA c :
    Bind(findIndex(c.workdirs, vp.value), LAMBDA existingIndex :
    Bind(existingIndex > 0 /\ c.workdirs[existingIndex].version = vv.value,
         LAMBDA unchanged :
    Bind(IF existingIndex > 0
         THEN [c.workdirs EXCEPT ![existingIndex].version = vv.value]
         ELSE Append(c.workdirs, Workdir(vp.value, vv.value)), LAMBDA workdirs :
    Bind(IF unchanged
         THEN Out("msg", "info", "unchanged", NoVersion, vv.value)
         ELSE IF existingIndex > 0
         THEN Out("msg", "success", "updated",
                  c.workdirs[existingIndex].version, vv.value)
         ELSE Out("msg", "success", "added", NoVersion, vv.value), LAMBDA msg :
    Bind(AppConfig(c.shell, c.manager, workdirs), LAMBDA c2 :
    Bind(saveConfig(c2, file, bk, t), LAMBDA sv :
    IF c2.shell # "" /\ c2.manager # "" /\ workdirs # << >>
    THEN Bind(regenerateFiles(c2, path, exists, content, "regenerated"), LAMBDA g :
              Done(sv.file, sv.backups, t, g.rc, << msg >> \o sv.out \o g.out, 0))
    ELSE Done(sv.file, sv.backups, t, same, << msg >> \o sv.out, 0)))))))))))

\* DeleteProject.handleSelect(item) of the interactive mode, item.value = i
handleSelect(i, file, bk, t, path, exists, content) ==
    Bind(getConfig(file), LAMBDA c :
    Bind([k \in 1..(Len(c.workdirs) - 1) |->
             IF k < i THEN c.workdirs[k] ELSE c.workdirs[k + 1]], LAMBDA workdirs :
    Bind(AppConfig(c.shell, c.manager, workdirs), LAMBDA c2 :
    Bind(saveConfig(c2, file, bk, t), LAMBDA sv :
    IF c2.shell # "" /\ c2.manager # ""
    THEN IF workdirs = << >>
         THEN Done(sv.file, sv.backups, t, removeHook(exists, content),
                   sv.out \o << Effect("clean"), Msg("success", "cleaned") >>, 0)
         ELSE Bind(regenerateFiles(c2, path, exists, content, "regenerated"), LAMBDA g :
                   Done(sv.file, sv.backups, t, g.rc, sv.out \o g.out, 0))
    ELSE Done(sv.file, sv.backups, t, FileResult(exists, content, "none"), sv.out, 0)))))

\* milliseconds that pass between two reads of the clock
ClockSteps == { 0, 1 }

\* what the user types as a directory and as a version
TypedDirs == { DirP, DirQ \o << "/" >>, DirP \o << ";" >>, << >> }

TypedVersions == { V18, V20v }

ToolSetups == { << "", "" >>, << "bash", "nvm" >>, << "bash", "nvs" >>, << "fish", "nvm" >> }

ToolRegistries ==
    { << >>, << Workdir(DirP, V18) >>, << Workdir(DirP, V18), Workdir(DirQ, V20) >> }

RcOfShell(sh) ==
    CASE sh = "fish"       -> "config.fish"
      [] sh = "powershell" -> "profile.ps1"
      [] sh = "cmd"        -> "init.cmd"
      [] OTHER             -> ".bashrc"

ToolContents == { << Txt("x"), NL >>, << Txt("x"), NL >> \o OldBlock \o << NL >> }

InitTool ==
    /\ NoSession
    /\ NoCall
    /\ NoCache
    /\ \/ config = [exists |-> FALSE, shell |-> "", manager |-> "", workdirs |-> << >>]
       \/ \E st \in ToolSetups, w \in ToolRegistries :
              config = ConfigFile(AppConfig(st[1], st[2], w))
    /\ rcPath = RcOfShell(config.shell)
    /\ \/ rcExists = FALSE /\ rcContent = << >>
       \/ rcExists = TRUE /\ rcContent \in ToolContents
    /\ last = NoOp /\ prev = NoOp /\ nOps = 0
    /\ backups = {} /\ now = 0
    /\ cmd = [name |-> "none"] /\ out = << >> /\ status = "none" /\ nCmds = 0

\* a command runs to its end and leaves r behind
Run(name, mode, dir, version, r) ==
    /\ nCmds < MaxCmds
    /\ cmd' = [name |-> name, mode |-> mode, dir |-> dir, version |-> version,
               config |-> config, rcExists |-> rcExists, rcContent |-> rcContent]
    /\ config' = r.file
    /\ backups' = r.backups
    /\ now' = r.now
    /\ rcExists' = r.rc.exists
    /\ rcContent' = r.rc.content
    /\ out' = r.out
    /\ status' = r.status
    /\ nCmds' = nCmds + 1
    /\ UNCHANGED << rcPath, last, prev, nOps, sessionVars, callVars, cacheVars >>

CliAdd(projectPath, version) ==
    \E d \in ClockSteps :
        \E r \in { handleAddCommand(projectPath, version, config, backups, now + d,
                                    rcPath, rcExists, rcContent) } :
            Run("add", "cli", projectPath, version, r)

CliRemove(projectPath) ==
    \E d \in ClockSteps :
        \E r \in { handleRemoveCommand(projectPath, config, backups, now + d,
                                       rcPath, rcExists, rcContent) } :
            Run("remove", "cli", projectPath, NoVersion, r)

CliRegenerate ==
    \E r \in { handleRegenerateCommand(config, backups, now, rcPath, rcExists, rcContent) } :
        Run("regenerate", "cli", << >>, NoVersion, r)

CliClean ==
    \E r \in { handleCleanCommand(config, backups, now, rcPath, rcExists, rcContent) } :
        Run("clean", "cli", << >>, NoVersion, r)

AppAdd(dir, version) ==
    \E d \in ClockSteps :
        \E r \in { handleVersionSubmit(dir, version, config, backups, now + d,
                                       rcPath, rcExists, rcContent) } :
            Run("add", "app", dir, version, r)

AppDelete(i) ==
    /\ i \in 1..Len(getConfig(config).workdirs)
    /\ \E d \in ClockSteps :
        \E r \in { handleSelect(i, config, backups, now + d, rcPath, rcExists, rcContent) } :
            Run("remove", "app", getConfig(config).workdirs[i].dir, NoVersion, r)

NextTool ==
    \/ \E dir \in TypedDirs, v \in TypedVersions : CliAdd(dir, v)
    \/ \E dir \in TypedDirs : CliRemove(dir)
    \/ CliRegenerate
    \/ CliClean
    \/ \E dir \in TypedDirs \ { << >> }, v \in TypedVersions : AppAdd(dir, v)
    \/ \E i \in 1..2 : AppDelete(i)

SpecTool == InitTool /\ [][NextTool]_vars

(***************************************************************************)
(* Successive saves of the registry on their own                           *)
(***************************************************************************)
InitSave ==
    /\ NoSession
    /\ NoCall
    /\ NoCache
    /\ NoFile
    /\ \/ config = [exists |-> FALSE, shell |-> "", manager |-> "", workdirs |-> << >>]
       \/ config = ConfigFile(AppConfig("bash", "nvm", << Workdir(DirP, V18) >>))
    /\ backups = {} /\ now = 0
    /\ cmd = [name |-> "none"] /\ out = << >> /\ status = "none" /\ nCmds = 0

\* configCache.saveConfig(c)
SaveConfig(c) ==
    /\ nCmds < MaxSaves
    /\ \E d \in ClockSteps :
         LET sv == saveConfig(c, config, backups, now + d) IN
         /\ config' = sv.file
         /\ backups' = sv.backups
         /\ now' = now + d
         /\ out' = sv.out
    /\ cmd' = [name |-> "save"]
    /\ status' = 0
    /\ nCmds' = nCmds + 1
    /\ UNCHANGED << fileVars, sessionVars, callVars, cacheVars >>

NextSave == \E w \in ToolRegistries : SaveConfig(AppConfig("bash", "nvm", w))

SpecSave == InitSave /\ [][NextSave]_vars

(***************************************************************************)
(* The validators on typed input                                           *)
(* A call is [fn, input]; ret is Pending until the validator has returned  *)
(* or thrown.                                                              *)
(***************************************************************************)
Pending == [ok |-> FALSE, value |-> << >>, kind |-> "pending", code |-> "pending"]

\* version strings a user can type: each form of the pattern list, in both
\* cases where the pattern is case-insensitive, and strings of no form
VersionBases ==
    { << "1", "8" >>, << "1", "8", ".", "1", "7" >>, << "1", "8", ".", "1", "7", ".", "1" >>,
      << "v", "1", "8" >>, << "v", "1", "8", ".", "1", "7" >>, << "v", "1", "8", ".", "1", "7", ".", "1" >>,
      << "l", "t", "s", "/", "*" >>, << "l", "t", "s", "/", "h", "y", "d", "r", "o", "g", "e", "n" >>, << "L", "T", "S", "/", "i", "r", "o", "n" >>,
      << "l", "a", "t", "e", "s", "t" >>, << "s", "t", "a", "b", "l", "e" >>, << "n", "o", "d", "e" >>,
      << "L", "a", "t", "e", "s", "t" >>, << "N", "o", "d", "e" >>, << " ", "1", "8", " " >>,
      << "v", "1", ".", "2", ".", "3", ".", "4" >>, << "1", "8", ".", "x" >>, << "l", "t", "s", "/" >>,
      << >> }

\* directory strings a user can type
PathBases ==
    { << "/", "p" >>, << "~", "/", "p" >>, << "~" >>,
      << "p" >>, << "/", "p", "/", "q", "/" >>, << " ", "/", "p", " " >>,
      << "/", "p", "/", ".", ".", "/", "q" >>, << ".", ".", "/", "p" >>, << "/", "p", "/", ".", "." >>,
      << >> }

\* the injection attempt of the unit tests
InjectionAttempt == << "1", "8", ".", "0", ".", "0", ";", " ", "r", "m", " ", "-", "r", "f", " ", "/" >>

\* every base, and every base with one character of the class put before it,
\* after it, or after its first character
WithUnsafeChar(bases) ==
    bases
      \cup { << c >> \o b : b \in bases, c \in DangerousChars }
      \cup { b \o << c >> : b \in bases, c \in DangerousChars }
      \cup { Take(b, 1) \o << c >> \o Drop(b, 1) : b \in bases, c \in DangerousChars }

VersionInputs == WithUnsafeChar(VersionBases) \cup { InjectionAttempt }

PathInputs == WithUnsafeChar(PathBases)

InitValidate ==
    /\ NoFile /\ NoSession /\ NoTool /\ NoCache
    /\ \/ \E x \in VersionInputs : call = [fn |-> "validateVersion", input |-> x]
       \/ \E x \in PathInputs : call = [fn |-> "validatePath", input |-> x]
    /\ ret = Pending

ValidateVersion ==
    /\ call.fn = "validateVersion" /\ ret = Pending
    /\ ret' = validateVersion(call.input)
    /\ UNCHANGED << fileVars, sessionVars, toolVars, cacheVars, call >>

ValidatePath ==
    /\ call.fn = "validatePath" /\ ret = Pending
    /\ ret' = validatePath(call.input)
    /\ UNCHANGED << fileVars, sessionVars, toolVars, cacheVars, call >>

NextValidate == ValidateVersion \/ ValidatePath

SpecValidate == InitValidate /\ [][NextValidate]_vars

(***************************************************************************)
(* validatePath applied to its own output                                  *)
(***************************************************************************)
\* directories typed with blanks in them: inside a name, before a separator
\* and at the end of the last name
SpacedPaths ==
    { << "/", "p", " ", "q" >>, << "/", "p", " ", "/" >>, << "/", "p", "/", " ", "/" >>,
      << "p", " ", "/" >>, << "~", "/", "p", " ", "/" >>, << "/", " ", "p" >> }

RevalidateInputs == PathInputs \cup SpacedPaths

InitRevalidate ==
    /\ NoFile /\ NoSession /\ NoTool /\ NoCache
    /\ \E x \in RevalidateInputs : call = [fn |-> "validatePath", input |-> x]
    /\ ret = Pending

\* the path validatePath returned is handed to validatePath again, as the
\* generators do with the directories of the registry
Revalidate ==
    /\ call.fn = "validatePath" /\ ret.kind # "pending" /\ ret.ok
    /\ call' = [fn |-> "revalidate", input |-> ret.value]
    /\ ret' = validatePath(ret.value)
    /\ UNCHANGED << fileVars, sessionVars, toolVars, cacheVars >>

NextRevalidate == ValidatePath \/ Revalidate

SpecRevalidate == InitRevalidate /\ [][NextRevalidate]_vars

(***************************************************************************)
(* The registry snapshot embedded in a hook, character by character        *)
(***************************************************************************)
MaxEntries == 2

RECURSIVE ReplaceAll(_, _, _)
\* String.prototype.replace(/c/g, r) for a one-character pattern; the string
\* is halved so that the evaluation nests only logarithmically deep
ReplaceAll(str, c, r) ==
    IF str = << >> THEN << >>
    ELSE IF Len(str) = 1 THEN (IF str[1] = c THEN r ELSE str)
    ELSE LET half == Len(str) \div 2
         IN  ReplaceAll(Take(str, half), c, r) \o ReplaceAll(Drop(str, half), c, r)

\* a JSON string literal as JSON.stringify writes it
JsonString(str) ==
    << "\"" >>
      \o ReplaceAll(ReplaceAll(ReplaceAll(str, "\\", << "\\", "\\" >>),
                               "\"", << "\\", "\"" >>),
                    "\n", << "\\", "n" >>)
      \o << "\"" >>

JsonKey(k) == << "\"" >> \o k \o << "\"", ":" >>

JsonWorkdir(w) ==
    << "{" >> \o JsonKey(<< "d", "i", "r" >>) \o JsonString(w.dir)
      \o << "," >> \o JsonKey(<< "v", "e", "r", "s", "i", "o", "n" >>)
      \o JsonString(w.version) \o << "}" >>

RECURSIVE JsonEntries(_)
JsonEntries(workdirs) ==
    IF workdirs = << >> THEN << >>
    ELSE IF Len(workdirs) = 1 THEN JsonWorkdir(workdirs[1])
    ELSE JsonWorkdir(workdirs[1]) \o << "," >> \o JsonEntries(Tail(workdirs))

\* JSON.stringify(validatedWorkdirs)
dirsJson(workdirs) == << "[" >> \o JsonEntries(validatedWorkdirs(workdirs)) \o << "]" >>

\* Security.escapeShellString
escapeShellString(str) == ReplaceAll(str, "'", << "'", "\\", "'", "'" >>)

\* PowerShellConfig.escapePowerShellString, and the same chain of replaces
\* inside HookManager.generatePowerShellHook
escapePowerShellString(str) ==
    ReplaceAll(ReplaceAll(ReplaceAll(str, "\\", << "\\", "\\" >>),
                          "\"", << "\"", "\"" >>),
               "\n", << "\\", "n" >>)

Dialects == { "posix", "fish", "powershell" }

Generators == { "HookManager", "ShellConfig" }

\* the literal of the WORKDIRS assignment: the escaped JSON between the single
\* quotes of the template
EmbeddedLiteral(dialect, workdirs) ==
    << "'" >>
      \o (IF dialect = "powershell" THEN escapePowerShellString(dirsJson(workdirs))
          ELSE escapeShellString(dirsJson(workdirs)))
      \o << "'" >>

Read(v) == [ok |-> TRUE, value |-> v]

Unreadable == [ok |-> FALSE, value |-> << >>]

\* One character read by a shell.  A reader is in one of the positions
\*   "out"   outside quotes                "sq"    between single quotes
\*   "esc"   after a backslash outside     "sqesc" after a backslash between
\*   "start" before the literal            "q"     after a quote that closes
\*   "bad"   the text is no literal                the literal or is doubled
Stepped(st, o) == [st |-> st, out |-> o]

\* POSIX shell: nothing is special between single quotes; outside them a
\* backslash keeps the next character
StepPosix(st, c) ==
    CASE st = "out" -> (IF c = "'" THEN Stepped("sq", << >>)
                        ELSE IF c = "\\" THEN Stepped("esc", << >>)
                        ELSE Stepped("out", << c >>))
      [] st = "sq" -> (IF c = "'" THEN Stepped("out", << >>) ELSE Stepped("sq", << c >>))
      [] st = "esc" -> Stepped("out", << c >>)
      [] OTHER -> Stepped("bad", << >>)

\* fish: between single quotes \' and \\ are escapes and nothing else is;
\* outside them a backslash keeps the next character
StepFish(st, c) ==
    CASE st = "out" -> (IF c = "'" THEN Stepped("sq", << >>)
                        ELSE IF c = "\\" THEN Stepped("esc", << >>)
                        ELSE Stepped("out", << c >>))
      [] st = "sq" -> (IF c = "'" THEN Stepped("out", << >>)
                       ELSE IF c = "\\" THEN Stepped("sqesc", << >>)
                       ELSE Stepped("sq", << c >>))
      [] st = "sqesc" -> (IF c \in { "'", "\\" } THEN Stepped("sq", << c >>)
                          ELSE Stepped("sq", << "\\", c >>))
      [] st = "esc" -> Stepped("out", << c >>)
      [] OTHER -> Stepped("bad", << >>)

\* PowerShell single-quoted string: '' stands for one quote and nothing else
\* is special; the string ends at the first quote that is not doubled
StepPowerShell(st, c) ==
    CASE st = "start" -> (IF c = "'" THEN Stepped("sq", << >>) ELSE Stepped("bad", << >>))
      [] st = "sq" -> (IF c = "'" THEN Stepped("q", << >>) ELSE Stepped("sq", << c >>))
      [] st = "q" -> (IF c = "'" THEN Stepped("sq", << "'" >>) ELSE Stepped("bad", << >>))
      [] OTHER -> Stepped("bad", << >>)

Step(dialect, st, c) ==
    CASE dialect = "posix" -> StepPosix(st, c)
      [] dialect = "fish" -> StepFish(st, c)
      [] dialect = "powershell" -> StepPowerShell(st, c)

ReaderPositions == { "out", "sq", "esc", "sqesc", "start", "q", "bad" }

RECURSIVE Scan(_, _, _, _)
\* the reader run over lit[lo..hi], as a function of the position it starts
\* in; the two halves are run apart and composed, left half first
Scan(dialect, lit, lo, hi) ==
    IF lo > hi THEN [st \in ReaderPositions |-> Stepped(st, << >>)]
    ELSE IF lo = hi THEN [st \in ReaderPositions |-> Step(dialect, st, lit[lo])]
    ELSE LET mid   == (lo + hi) \div 2
             left  == Scan(dialect, lit, lo, mid)
             right == Scan(dialect, lit, mid + 1, hi)
         IN  [st \in ReaderPositions |->
                 LET l == left[st]
                     r == right[l.st]
                 IN  Stepped(r.st, l.out \o r.out)]

\* what the shell binds WORKDIRS to
ShellReads(dialect, lit) ==
    LET r == Scan(dialect, lit, 1, Len(lit))[IF dialect = "powershell" THEN "start" ELSE "out"]
    IN  IF r.st = (IF dialect = "powershell" THEN "q" ELSE "out")
        THEN Read(r.out) ELSE Unreadable

\* directories and versions of registry entries: plain, with a blank inside,
\* under the home directory, and one that validatePath refuses
DirSpaced == << "/", "m", "y", " ", "p" >>

DirHome == << "~", "/", "p" >>

DirQuoted == << "/", "p", "'" >>

VLts == << "l", "t", "s", "/", "i", "r", "o", "n" >>

EmbedEntries ==
    { Workdir(d, v) : d \in { DirP, DirSpaced, DirHome, DirQuoted },
                      v \in { V18, V20v, VLts } }

RECURSIVE SeqsUpTo(_, _)
SeqsUpTo(S, n) ==
    IF n = 0 THEN { << >> }
    ELSE LET shorter == SeqsUpTo(S, n - 1)
         IN  shorter \cup { Append(q, e) : q \in shorter, e \in S }

EmbedSnapshots == SeqsUpTo(EmbedEntries, MaxEntries)

NoLiteral == [stage |-> "start", json |-> << >>, literal |-> << >>, decoded |-> Unreadable]

InitEscape ==
    /\ NoFile /\ NoSession /\ NoTool /\ NoCache
    /\ \E g \in Generators, d \in Dialects, w \in EmbedSnapshots :
          call = [fn |-> "generate", generator |-> g, dialect |-> d, workdirs |-> w]
    /\ ret = NoLiteral

\* the first lines of a generator: validate, stringify, escape, and put the
\* result between the quotes of the template
EmbedWorkdirs ==
    /\ ret.stage = "start"
    /\ ret' = IF ValidationThrows(call.workdirs)
              THEN [ret EXCEPT !.stage = "threw"]
              ELSE [ret EXCEPT !.stage = "embedded",
                               !.json = dirsJson(call.workdirs),
                               !.literal = EmbeddedLiteral(call.dialect, call.workdirs)]
    /\ UNCHANGED << fileVars, sessionVars, toolVars, cacheVars, call >>

\* the wrapper runs: the shell evaluates the WORKDIRS assignment
AssignWorkdirs ==
    /\ ret.stage = "embedded"
    /\ ret' = [ret EXCEPT !.stage = "read",
                          !.decoded = ShellReads(call.dialect, ret.literal)]
    /\ UNCHANGED << fileVars, sessionVars, toolVars, cacheVars, call >>

NextEscape == EmbedWorkdirs \/ AssignWorkdirs

SpecEscape == InitEscape /\ [][NextEscape]_vars

(***************************************************************************)
(* The registry cache of one running process (ConfigCache) and the         *)
(* registry file, written by this process and by others. Arrays live on    *)
(* the heap and objects refer to them by address. No legacy file is        *)
(* present, so migrateConfigIfNeeded has nothing to do.                    *)
(***************************************************************************)
MaxCalls == 3

\* the registry an object holds, its workdirs array read from heap h
Deref(o, h) == AppConfig(o.shell, o.manager, h[o.workdirs])

\* an object whose workdirs field refers to the array at address a
ObjectAt(c, a) == [shell |-> c.shell, manager |-> c.manager, workdirs |-> a]

\* what the cache holds
CachedRegistry(d, h) == IF d.set THEN Deref(d, h) ELSE [set |-> FALSE]

InitCache ==
    /\ NoFile /\ NoSession /\ NoCall
    /\ data = [set |-> FALSE] /\ lastModified = 0 /\ heap = << >>
    /\ \/ config = [exists |-> FALSE, shell |-> "", manager |-> "", workdirs |-> << >>]
          /\ mtime = 0
       \/ \E w \in ToolRegistries :
              config = ConfigFile(AppConfig("bash", "nvm", w)) /\ mtime = 1
    /\ backups = {} /\ now = 1
    /\ cmd = [name |-> "none"] /\ out = << >> /\ status = "none" /\ nCmds = 0

\* configCache.getConfig(): the default configuration without a file, a
\* reload when nothing is cached or the file's mtime is greater than
\* lastModified, and in every case a copy {...this.data} that shares the
\* workdirs array of the cached object
ConfigCache_getConfig ==
    /\ nCmds < MaxCalls
    /\ call' = [fn |-> "getConfig"]
    /\ IF ~config.exists
       THEN /\ heap' = Append(heap, << >>)
            /\ ret' = ObjectAt(AppConfig("", "", << >>), Len(heap) + 1)
            /\ UNCHANGED << data, lastModified >>
       ELSE IF ~data.set \/ mtime > lastModified
       THEN /\ heap' = Append(heap, getConfig(config).workdirs)
            /\ data' = [set |-> TRUE, shell |-> config.shell, manager |-> config.manager,
                        workdirs |-> Len(heap) + 1]
            /\ lastModified' = mtime
            /\ ret' = ObjectAt(config, Len(heap) + 1)
       ELSE /\ ret' = ObjectAt(data, data.workdirs)
            /\ UNCHANGED << data, lastModified, heap >>
    /\ nCmds' = nCmds + 1
    /\ UNCHANGED << fileVars, sessionVars, config, backups, now, cmd, out, status, mtime >>

\* configCache.saveConfig(c): the file is written d milliseconds from now,
\* Date.now() is read e milliseconds after the write
ConfigCache_saveConfig(c) ==
    /\ nCmds < MaxCalls
    /\ \E d \in ClockSteps, e \in ClockSteps :
         \E sv \in { saveConfig(c, config, backups, now + d) } :
            /\ config' = sv.file
            /\ backups' = sv.backups
            /\ mtime' = now + d
            /\ heap' = Append(heap, sv.file.workdirs)
            /\ data' = [set |-> TRUE, shell |-> sv.file.shell, manager |-> sv.file.manager,
                        workdirs |-> Len(heap) + 1]
            /\ lastModified' = now + d + e
            /\ now' = now + d + e
    /\ call' = [fn |-> "saveConfig"]
    /\ ret' = [threw |-> FALSE]
    /\ nCmds' = nCmds + 1
    /\ UNCHANGED << fileVars, sessionVars, cmd, out, status >>

\* another process, or an editor, writes the registry file
ExternalWrite(c) ==
    /\ nCmds < MaxCalls
    /\ \E d \in ClockSteps : mtime' = now + d /\ now' = now + d
    /\ config' = ConfigFile(c)
    /\ call' = [fn |-> "external write"]
    /\ ret' = [threw |-> FALSE]
    /\ nCmds' = nCmds + 1
    /\ UNCHANGED << fileVars, sessionVars, backups, cmd, out, status, data, lastModified, heap >>

NextCache ==
    \/ ConfigCache_getConfig
    \/ \E w \in ToolRegistries : ConfigCache_saveConfig(AppConfig("bash", "nvm", w))
    \/ \E w \in ToolRegistries : ExternalWrite(AppConfig("bash", "nvm", w))

SpecCache == InitCache /\ [][NextCache]_vars

\* the caller holds the object getConfig returned
Holding == call.fn \in { "getConfig", "push", "assign" }

\* config.workdirs.push({dir, version}) on the object getConfig returned
Push(w) ==
    /\ nCmds < MaxCalls
    /\ Holding
    /\ heap' = [heap EXCEPT ![ret.workdirs] = Append(@, w)]
    /\ call' = [fn |-> "push"]
    /\ nCmds' = nCmds + 1
    /\ UNCHANGED << fileVars, sessionVars, config, backups, now, cmd, out, status,
                    ret, data, lastModified, mtime >>

\* config.workdirs[existingIndex].version = version on that object
SetVersion(i, v) ==
    /\ nCmds < MaxCalls
    /\ Holding
    /\ i \in 1..Len(heap[ret.workdirs])
    /\ heap' = [heap EXCEPT ![ret.workdirs][i].version = v]
    /\ call' = [fn |-> "assign"]
    /\ nCmds' = nCmds + 1
    /\ UNCHANGED << fileVars, sessionVars, config, backups, now, cmd, out, status,
                    ret, data, lastModified, mtime >>

\* configCache.saveConfig(c) when writeFileSync ("write") or chmodSync
\* ("chmod") throws: the backup is made, the cache is not assigned
SaveConfigThrows(c, at) ==
    /\ nCmds < MaxCalls
    /\ \E d \in ClockSteps :
         \E sv \in { saveConfig(c, config, backups, now + d) } :
            /\ backups' = sv.backups
            /\ now' = now + d
            /\ IF at = "chmod"
               THEN config' = sv.file /\ mtime' = now + d
               ELSE UNCHANGED << config, mtime >>
    /\ call' = [fn |-> "saveConfig"]
    /\ ret' = [threw |-> TRUE]
    /\ nCmds' = nCmds + 1
    /\ UNCHANGED << fileVars, sessionVars, cmd, out, status, data, lastModified, heap >>

\* the caller saves the object it holds, as handleAddCommand does
SaveHeld == Holding /\ ConfigCache_saveConfig(Deref(ret, heap))

NextAlias ==
    \/ NextCache
    \/ \E w \in { Workdir(DirQ, V20) } : Push(w)
    \/ \E i \in 1..2 : SetVersion(i, V20v)
    \/ \E w \in ToolRegistries, at \in { "write", "chmod" } :
           SaveConfigThrows(AppConfig("bash", "nvm", w), at)
    \/ SaveHeld

SpecAlias == InitCache /\ [][NextAlias]_vars

(***************************************************************************)
(* The edit screen of the menu (editProjectConfig of node-auto-switch.js). *)
(* The .nvmrc file it writes next to the project is not part of the state. *)
(***************************************************************************)
\* checkDuplicateDir(workdirs, newDir): whether an entry resolves to
\* validatePath(newDir); null when validatePath throws
checkDuplicateDir(workdirs, newDir) ==
    /\ newDir # << >>
    /\ validatePath(newDir).ok
    /\ findIndex(workdirs, validatePath(newDir).value) # 0

\* config.workdirs.filter((_, i) => i !== index)
Others(workdirs, index) ==
    [k \in 1..(Len(workdirs) - 1) |-> IF k < index THEN workdirs[k] ELSE workdirs[k + 1]]

\* the tilde expansion and path.resolve of the path branch
resolvedNewDir(newDir) ==
    PathResolve(IF Len(newDir) >= 2 /\ Take(newDir, 2) = << "~", "/" >>
                THEN PathJoinHome(Drop(newDir, 2))
                ELSE IF newDir = << "~" >> THEN HOME ELSE newDir)

\* newVersion.replace(/^v/, '')
withoutLeadingV(newVersion) ==
    IF newVersion # << >> /\ Head(newVersion) = "v" THEN Tail(newVersion) ELSE newVersion

Unsaved(file, bk, kind) == [file |-> file, backups |-> bk, out |-> << Msg("warn", kind) >>]

\* editProjectConfig with the project number index, editChoice "1" (version)
\* or "2" (path) and the text typed at the prompt
editProjectConfig(index, editChoice, input, file, bk, t) ==
    Bind(getConfig(file), LAMBDA c :
    IF index \notin 1..Len(c.workdirs) THEN Unsaved(file, bk, "bad_index")
    ELSE IF editChoice = "1"
    THEN IF validateVersion(input).ok
         THEN saveConfig([c EXCEPT !.workdirs[index].version = withoutLeadingV(input)],
                         file, bk, t)
         ELSE Unsaved(file, bk, "bad_version")
    ELSE IF Trim(input) = << >> THEN Unsaved(file, bk, "empty_path")
    ELSE IF checkDuplicateDir(Others(c.workdirs, index), input)
    THEN Unsaved(file, bk, "duplicate")
    ELSE saveConfig([c EXCEPT !.workdirs[index].dir = resolvedNewDir(input)], file, bk, t))

EditInputs == TypedDirs \cup TypedVersions \cup { << " ", "1", "8" >>, << "x" >> }

InitEdit ==
    /\ NoSession
    /\ NoCall
    /\ NoCache
    /\ NoFile
    /\ \E w \in ToolRegistries : config = ConfigFile(AppConfig("bash", "nvm", w))
    /\ backups = {} /\ now = 0
    /\ cmd = [name |-> "none"] /\ out = << >> /\ status = "none" /\ nCmds = 0

EditProject(index, editChoice, input) ==
    /\ nCmds < MaxCmds
    /\ \E d \in ClockSteps :
         \E r \in { editProjectConfig(index, editChoice, input, config, backups, now + d) } :
            /\ config' = r.file
            /\ backups' = r.backups
            /\ out' = r.out
            /\ now' = now + d
    /\ cmd' = [name |-> "edit", index |-> index, editChoice |-> editChoice, input |-> input]
    /\ status' = 0
    /\ nCmds' = nCmds + 1
    /\ UNCHANGED << fileVars, sessionVars, callVars, cacheVars >>

NextEdit ==
    \E index \in 1..2, editChoice \in { "1", "2" }, input \in EditInputs :
        EditProject(index, editChoice, input)

SpecEdit == InitEdit /\ [][NextEdit]_vars

(***************************************************************************)
(* The directory test of the wrappers on its own: one registry entry, as   *)
(* validatePath returned it, against one current directory.                *)
(***************************************************************************)
\* directories a user registers
TypedMatchDirs ==
    { << "/", "a", "/", "b" >>, << "/", "a", ".", "b" >>, << "/", "a", "/", "b", ".", "c" >>,
      << "/", "a", "/", "b", "/" >>, << "/", "a", "*" >> }

MatchDirs == { validatePath(t).value : t \in { u \in TypedMatchDirs : validatePath(u).ok } }

\* what pwd prints
MatchCwds ==
    { << "/", "a", "/", "b" >>, << "/", "a", "/", "b", "/", "c" >>, << "/", "a", "/", "b", "c" >>,
      << "/", "a", ".", "b" >>, << "/", "a", ".", "b", "/", "c" >>, << "/", "a", "x", "b", "/", "c" >>,
      << "/", "a", "/", "b", ".", "c", "/", "d" >>, << "/", "a", "/", "b", "x", "c", "/", "d" >>,
      << "/", "a" >>, << "/", "o" >> }

InitMatch ==
    /\ NoFile /\ NoSession /\ NoTool /\ NoCache
    /\ \E d \in MatchDirs, c \in MatchCwds : call = [fn |-> "match", dir |-> d, cur |-> c]
    /\ ret = Pending

\* the test as the template v writes it
DirectoryTest(v, cur, dir) ==
    IF IsPosix(v) THEN GrepMatches(cur, dir) ELSE PrefixMatches(cur, dir)

TestDirectory(v) ==
    /\ call.fn = "match" /\ ret = Pending
    /\ ret' = [kind |-> v, matched |-> DirectoryTest(v, call.cur, call.dir)]
    /\ UNCHANGED << fileVars, sessionVars, toolVars, cacheVars, call >>

NextMatch ==
    \/ TestDirectory("hm_posix")
    \/ TestDirectory("cfg_posix")
    \/ TestDirectory("cfg_fish")

SpecMatch == InitMatch /\ [][NextMatch]_vars

(***************************************************************************)
(* Properties of the generated wrapper                                     *)
(***************************************************************************)
Finished == result.how \in { "return", "exit", "fallthrough" }

\* the current invocation switched to its target
Switched ==
    \E i \in 1..Len(events) :
        /\ events[i].k = "use" /\ events[i].by = "body" /\ events[i].out = "ok"
        /\ events[i].v = TARGET_VERSION /\ TARGET_VERSION # NoVersion
        /\ \A j \in 1..i : events[j].k # "exec"

ExecIndexes == { i \in 1..Len(events) : events[i].k = "exec" }

RestoreIndexes ==
    { i \in 1..Len(events) : events[i].k = "use" /\ events[i].v = PREVIOUS_VERSION
                             /\ \E j \in ExecIndexes : j < i }

ReturnIndexes == { i \in 1..Len(events) : events[i].k = "return" }

\* C1: when the wrapper has switched from a known previous version and
\* the real command ran to completion, the finished invocation shows a use
\* of PREVIOUS_VERSION after the real command and before the return.
RestoreBeforeReturn ==
    (Finished /\ ~interrupted /\ Switched /\ PREVIOUS_VERSION # NoVersion)
        => \E i \in RestoreIndexes : \E k \in ReturnIndexes : i < k

\* C2: when the wrapper has switched from a known previous version and
\* the real command was ended by Ctrl+C, then by the time the shell session
\* is over a use of PREVIOUS_VERSION has been made after the command died.
InterruptRestores ==
    (pc = "ended" /\ interrupted /\ Switched /\ PREVIOUS_VERSION # NoVersion)
        => RestoreIndexes # {}

\* the version of the longest registry entry that is the directory or one
\* of its ancestors; none when there is no such entry
LongestPrefixVersion(entries, cur) ==
    LET m == { i \in 1..Len(entries) :
                 \/ entries[i].dir = cur
                 \/ IsPrefixOf(entries[i].dir \o << "/" >>, cur) }
    IN  IF m = {} THEN NoVersion
        ELSE entries[CHOOSE i \in m : \A j \in m : Len(entries[j].dir) <= Len(entries[i].dir)].version

\* C3: whatever the order of the registry, the target the wrapper resolves
\* is the version of the longest entry that equals the current directory or
\* is a path prefix of it, and is empty when no entry matches.
LongestMatchWins ==
    (pc = "decide") => TARGET_VERSION = LongestPrefixVersion(registry, cwd)

\* the switch block ran and no use of the target succeeded
SwitchFailed ==
    /\ events # << >>
    /\ events[1].k = "use" /\ events[1].by = "body" /\ events[1].out # "ok"
    /\ ~Switched

\* C4: an invocation whose version switch failed (use failed, and the
\* install-then-use that follows failed too) has still run the real command
\* by the time it ends.
FailOpen ==
    (result.how # "none" /\ SwitchFailed) => ExecIndexes # {}

FailOpenWitness ==
    /\ result.how = "return"
    /\ Len(events) >= 3
    /\ events[1].k = "use" /\ events[1].out = "fail"
    /\ events[2].k = "install" /\ events[2].out = "fail"
    /\ ~Switched
    /\ events[3].k = "exec" /\ events[3].out = "ok"

\* what a caller reads as the wrapper's exit code: the status of a
\* POSIX/Fish function is its return value; a PowerShell function has no
\* status of its own, its caller reads $LASTEXITCODE, or the code of the
\* session when the function ran `exit`
WrapperExitCode ==
    IF shell = "powershell" /\ result.how # "exit" THEN LASTEXITCODE ELSE result.value

\* C5: on every path on which the wrapper runs to its end, the exit code
\* its caller observes is the exit code of the real command.
ExitCodePreserved ==
    (Finished /\ ExecIndexes # {})
        => WrapperExitCode = events[CHOOSE i \in ExecIndexes : \A j \in ExecIndexes : j <= i].code

\* C6: an invocation whose target is empty or equal to the previous
\* version makes no use or install call of its own, sets no trap, and its
\* first step is the real command.
NoSwitchNoCalls ==
    (inv > 0 /\ (TARGET_VERSION = NoVersion \/ TARGET_VERSION = PREVIOUS_VERSION))
        => /\ \A i \in 1..Len(events) :
                 events[i].by = "body" => events[i].k \notin { "use", "install" }
           /\ ~(trapINT.set /\ trapINT.inv = inv)
           /\ ~(trapEXIT.set /\ trapEXIT.inv = inv)
           /\ events # << >> => events[1].k = "exec"
           /\ pc \in { "decide", "exec", "ret", "idle", "ended" }

NoSwitchNoCallsWitness ==
    /\ result.how = "return"
    /\ TARGET_VERSION # NoVersion /\ TARGET_VERSION = PREVIOUS_VERSION
    /\ Len(events) = 2
    /\ events[1].k = "exec" /\ events[2].k = "return"

(***************************************************************************)
(* Properties of the injection engine                                      *)
(***************************************************************************)
CountStartMarkers(s) ==
    Cardinality({ i \in 1..Len(s) :
                    s[i] = MARK /\ (i = Len(s) \/ s[i + 1] # ENDTOK) })

CountEndMarkers(s) ==
    Cardinality({ i \in 1..(Len(s) - 1) : s[i] = MARK /\ s[i + 1] = ENDTOK })

CountFnDefs(s, name) ==
    Cardinality({ i \in 1..Len(s) : s[i][1] = "fn" /\ s[i][2] = name })

WrapperNames == { "npm", "yarn", "pnpm" }

\* index of the first start marker of s
StartIndex(s) == CHOOSE i \in 1..Len(s) : s[i] = MARK /\ \A j \in 1..(i - 1) : s[j] # MARK

\* s is user text, one well-formed Hook Block, user text
HasOneBlock(s) ==
    /\ CountStartMarkers(s) = 1
    /\ CountEndMarkers(s) = 1
    /\ EndIndex(Drop(s, StartIndex(s) - 1)) > 0

TextBefore(s) == Take(s, StartIndex(s) - 1)

\* what follows the block, the block being the marker lines and what is
\* between them, the end marker's line terminator included
TextAfter(s) ==
    LET a == Drop(s, StartIndex(s) - 1 + EndIndex(Drop(s, StartIndex(s) - 1)) + 1)
    IN  IF a # << >> /\ Head(a) = NL THEN Tail(a) ELSE a

\* the hook the generators produce for a startup file
NewHook(path, manager, workdirs) ==
    IF isPowerShell(path) THEN generatePowerShellHook(manager, workdirs).hook
    ELSE IF isFishShell(path) THEN generateReliableFishHook(manager, workdirs).hook
    ELSE generateReliableBashHook(manager, workdirs).hook

\* C7: two addHook calls in a row with the same manager and registry entries
\* leave the file byte-identical to what the first call left.
InjectionIdempotent ==
    (/\ last.op = "add" /\ prev.op = "add"
     /\ last.manager = prev.manager /\ last.workdirs = prev.workdirs)
        => last.after.content = prev.after.content

SupportedPair(path, manager) ==
    IF isPowerShell(path) THEN manager \in { "nvm-windows", "fnm", "nvs" }
    ELSE manager \in { "nvm", "n", "fnm" }

\* C10: addHook for a POSIX, Fish or PowerShell startup file with a manager
\* that is not supported for that dialect raises an error and writes nothing.
UnsupportedPairRaises ==
    (/\ last.op = "add" /\ ~isCmdBatch(rcPath)
     /\ ~SupportedPair(rcPath, last.manager))
        => /\ last.after.outcome = "threw"
           /\ last.after.exists = last.before.exists
           /\ last.after.content = last.before.content

(***************************************************************************)
(* Properties of the commands and of the registry                          *)
(***************************************************************************)
\* messages that report the command's own success to the user
SuccessKinds == { "added", "updated", "removed", "regenerated", "cleaned" }

IsSuccessMsg(e) == e.k = "msg" /\ e.level = "success" /\ e.kind \in SuccessKinds

\* C11: in the trace of one add, remove or regenerate command, the save of
\* the registry comes before the regeneration of the hook, and the
\* regeneration comes before every message that reports success.
SaveRegenerateReport ==
    (cmd.name \in { "add", "remove", "regenerate" })
        => \A i \in 1..Len(out) : \A j \in 1..Len(out) :
              /\ (out[i].k = "save" /\ out[j].k = "regen") => i < j
              /\ (out[i].k = "regen" /\ IsSuccessMsg(out[j])) => i < j

\* the add command got past validation
AddAccepted ==
    /\ cmd.name = "add"
    /\ cmd.dir # << >> /\ cmd.version # << >>
    /\ validatePath(cmd.dir).ok /\ validateVersion(cmd.version).ok

\* positions at which the registry the command started from holds dir d
RegisteredAt(d) ==
    { i \in 1..Len(getConfig(cmd.config).workdirs) :
        PathResolve(getConfig(cmd.config).workdirs[i].dir) = d }

\* C12: an add of a directory registered with the same version reports
\* "unchanged"; with another version it reports "updated" and shows the old
\* and the new version; an add of a new directory reports "added"; in the
\* CLI and in the interactive mode alike.
UpsertReporting ==
    AddAccepted =>
        LET d == validatePath(cmd.dir).value
            v == validateVersion(cmd.version).value
            before == getConfig(cmd.config).workdirs
        IN  \E k \in 1..Len(out) :
              /\ out[k].k = "msg"
              /\ IF RegisteredAt(d) = {} THEN out[k].kind = "added"
                 ELSE \E i \in RegisteredAt(d) :
                        IF before[i].version = v THEN out[k].kind = "unchanged"
                        ELSE /\ out[k].kind = "updated"
                             /\ out[k].old = before[i].version
                             /\ out[k].new = v

BackupRotation ==
    /\ Cardinality(backups) <= 5
    /\ \A b \in backups : Cardinality({ c \in backups : c.mtime > b.mtime }) < 5
    /\ (cmd.name = "save" /\ nCmds = 7) => Cardinality(backups) = 5

\* the command is a regenerate that meets a fatal configuration error
FatalRegenerate ==
    /\ cmd.name = "regenerate"
    /\ \/ getConfig(cmd.config).shell = ""
       \/ getConfig(cmd.config).manager = ""
       \/ /\ getConfig(cmd.config).workdirs # << >>
          /\ ~SupportedPair(rcPath, getConfig(cmd.config).manager)

\* C19: a regenerate with no shell or manager configured, or for an
\* unsupported (shell, manager) pair, exits non-zero and leaves the
\* registry file and the startup file as they were.
FatalErrorLeavesFiles ==
    FatalRegenerate =>
        /\ status = 1
        /\ config = cmd.config
        /\ rcExists = cmd.rcExists
        /\ rcContent = cmd.rcContent

\* C20: after a regenerate that wrote the hook, a POSIX startup file holds
\* exactly one definition of each of npm, yarn and pnpm.
OneWrapperPerCommand ==
    (/\ cmd.name = "regenerate" /\ status = 0
     /\ rcPath = ".bashrc"
     /\ \E k \in 1..Len(out) : out[k].kind = "regenerated")
        => \A name \in WrapperNames : CountFnDefs(rcContent, name) = 1

(***************************************************************************)
(* Properties of the validators                                            *)
(***************************************************************************)
\* the characters the validators are documented to refuse
UnsafeCharacterSet ==
    { ";", "|", "&", "$", "(", ")", "{", "}", "[", "]", "\\", "`", "\"", "'",
      "<", ">", "*", "?" }

Returned == ret.kind # "pending"

ListedVersionForm(t) ==
    \/ IsDotted(t, 1, 3)
    \/ t # << >> /\ t[1] = "v" /\ IsDotted(Tail(t), 1, 3)
    \/ t = << "l", "t", "s", "/", "*" >>
    \/ Len(t) > 4 /\ Lower(Take(t, 4)) = << "l", "t", "s", "/" >>
                  /\ IsWordish(Drop(t, 4))
    \/ Lower(t) \in { << "l", "a", "t", "e", "s", "t" >>,
                      << "s", "t", "a", "b", "l", "e" >>,
                      << "n", "o", "d", "e" >> }

StripV(t) == IF t # << >> /\ t[1] = "v" THEN Tail(t) ELSE t

\* C15: validateVersion accepts every string of a listed form (digits, up to
\* three dot-groups, the same after a leading v, lts/*, lts/<name>, latest,
\* stable, node) and returns it without the leading v.
ListedFormsAccepted ==
    (Returned /\ call.fn = "validateVersion" /\ ListedVersionForm(call.input))
        => ret.ok /\ ret.value = StripV(call.input)

(***************************************************************************)
(* Properties of the embedded registry                                     *)
(***************************************************************************)
\* C16: for every validated registry snapshot and each of the three
\* dialects, the shell that evaluates the quoted literal of the hook obtains
\* exactly the JSON text the generator stringified.
EscapingRoundTrip ==
    ret.stage = "read" => ret.decoded.ok /\ ret.decoded.value = ret.json

(***************************************************************************)
(* Properties of the marker pairs                                          *)
(***************************************************************************)
CountToken(s, t) == Cardinality({ i \in 1..Len(s) : s[i] = t })

\* C18: removal recognizes the AUTO_NODE_SWITCH_HOOK_START / _END pair as well
\* as the legacy pair: after removeHook on an existing file no marker line
\* of either pair and no wrapper definition is left, and after addHook has
\* written, the file holds one block only, delimited by the
\* AUTO_NODE_SWITCH_HOOK_START / _END pair.
BothMarkerPairsRecognized ==
    /\ (last.op = "remove" /\ last.before.exists)
          => /\ CountToken(rcContent, AUTO_NODE_SWITCH_HOOK_START) = 0
             /\ CountToken(rcContent, AUTO_NODE_SWITCH_HOOK_END) = 0
             /\ CountToken(rcContent, MARK) = 0
             /\ CountFnDefs(rcContent, "npm") = 0
    /\ (last.op = "add" /\ last.after.outcome = "written")
          => /\ CountToken(rcContent, AUTO_NODE_SWITCH_HOOK_START) = 1
             /\ CountToken(rcContent, AUTO_NODE_SWITCH_HOOK_END) = 1
             /\ CountToken(rcContent, MARK) = 0
             /\ CountFnDefs(rcContent, "npm") = 1

(***************************************************************************)
(* Properties of validatePath on its own output                            *)
(***************************************************************************)
\* C21: validatePath applied to a path it returned succeeds and returns that
\* same absolute path.
ValidatePathIdempotent ==
    call.fn = "revalidate" => ret.ok /\ ret.value = call.input

(***************************************************************************)
(* Properties of the registry cache                                        *)
(***************************************************************************)
\* C22: getConfig never returns a registry older than the file on disk:
\* whatever saveConfig calls and external writes came before, what getConfig
\* returns is the current content of the file.
CacheNeverOlderThanFile ==
    (call.fn = "getConfig" /\ config.exists) => Deref(ret, heap) = getConfig(config)

\* C30: the cached registry changes only in a saveConfig call that does not
\* throw or in a getConfig call that reloads the file; changing an object
\* getConfig returned leaves it as it was.
CacheChangesOnlyBySaveOrReload ==
    [][CachedRegistry(data', heap') # CachedRegistry(data, heap)
          => \/ call'.fn = "saveConfig" /\ ~ret'.threw
             \/ call'.fn = "getConfig"]_vars

(***************************************************************************)
(* Properties of the restoration a wrapper invocation arms                 *)
(***************************************************************************)
\* the restoring manager calls in the trace that invocation n armed: the
\* actions of its traps, and for the current invocation the statement after
\* the real command
RestorationEvents(n) ==
    { i \in 1..Len(events) :
        /\ events[i].k = "use"
        /\ \/ events[i].by = "trap" /\ events[i].code = n
           \/ /\ n = inv /\ branch = "try" /\ events[i].by = "body"
              /\ events[i].v = PREVIOUS_VERSION }

\* C23: the restoration one wrapper invocation armed runs at most once,
\* whatever mix of normal return, Ctrl+C and shell exit follows.
RestorationAtMostOnce ==
    \A n \in 1..inv : Cardinality(RestorationEvents(n)) <= 1

\* C24: once an invocation has returned, nothing it armed acts any more: a
\* trap action that runs during an invocation was armed by that invocation.
NoTrapOutlivesInvocation ==
    \A i \in 1..Len(events) : events[i].by = "trap" => events[i].code = inv

\* C29: the version manager's use is never called with an empty version (a
\* switch always names its target, so this is about restoration): an
\* invocation that started without a runnable node restores nothing.
NoEmptyRestoration ==
    \A i \in 1..Len(events) : events[i].k = "use" => events[i].v # NoVersion

(***************************************************************************)
(* Properties of the real command                                          *)
(***************************************************************************)
\* the runs of the real command in the current invocation
RealCommandRuns == { i \in 1..Len(events) : events[i].k = "exec" }

\* C28: the real command runs exactly once per invocation: never twice, and
\* once when the invocation has ended, whatever the manager calls did.
RealCommandExactlyOnce ==
    /\ Cardinality(RealCommandRuns) <= 1
    /\ result # NoResult => Cardinality(RealCommandRuns) = 1

(***************************************************************************)
(* Properties of the directory test                                        *)
(***************************************************************************)
\* cur is dir, or dir followed by a separator and more
OnOrBelow(cur, dir) ==
    \/ cur = dir
    \/ Len(cur) > Len(dir) /\ Take(cur, Len(dir) + 1) = Append(dir, "/")

\* C25: an entry matches the current directory exactly when the current
\* directory is the entry's directory or lies below it, whatever characters
\* the validator let into the directory.
BoundaryAwareMatch ==
    ret.kind # "pending" => (ret.matched <=> OnOrBelow(call.cur, call.dir))

(***************************************************************************)
(* Properties of the stored pairs                                          *)
(***************************************************************************)
\* C26: every directory / version pair of the registry file is one that
\* validatePath and validateVersion accept, whatever was typed in the edit
\* screen.
StoredPairsValidated ==
    \A i \in 1..Len(config.workdirs) :
        /\ validatePath(config.workdirs[i].dir).ok
        /\ validateVersion(config.workdirs[i].version).ok

(***************************************************************************)
(* Properties of the hook after a remove                                   *)
(***************************************************************************)
\* C27: after a CLI remove that removed an entry, with shell and manager
\* configured, the startup file holds no wrapper whose embedded registry
\* lists the removed directory, also when the registry is now empty.
RemovedDirNotEmbedded ==
    (/\ cmd.name = "remove" /\ cmd.mode = "cli" /\ status = 0
     /\ \E k \in 1..Len(out) : out[k].kind = "removed"
     /\ cmd.config.shell # "" /\ cmd.config.manager # ""
     /\ rcExists)
        => \A i \in 1..Len(rcContent) :
               rcContent[i][1] = "fn"
                   => \A j \in 1..Len(rcContent[i][5]) :
                          rcContent[i][5][j].dir # validatePath(cmd.dir).value

====
